---- MODULE Spec2Model ----
(***************************************************************************)
(* A model of geoflow: the well-log data layer (geoflow/well_data.py),     *)
(* the well section view (geoflow/ui/well_section.py) and the session      *)
(* persistence of the main window (geoflow/ui/workspace.py, window.py).    *)
(*                                                                         *)
(* Numbers.  Python floats are modelled as exact rationals [n, d] in       *)
(* lowest terms with d > 0; 0/0 is NaN, 1/0 is inf and -1/0 is -inf.  The  *)
(* bounds on the zoom and drag steps keep every numerator and denominator  *)
(* inside TLC's integers, and inside the range where a double is exact     *)
(* enough for the comparisons made here.                                   *)
(*                                                                         *)
(* Python dicts are modelled as sequences of [k, v] pairs in insertion     *)
(* order; text is modelled as a sequence of one-character strings.         *)
(***************************************************************************)
EXTENDS Integers, Sequences, FiniteSets, TLC

(***************************************************************************)
(* Bounds of the model.                                                    *)
(***************************************************************************)
MaxLoads == 2
MaxOps == 4
MaxTabs == 2
MaxSessionOps == 7

(***************************************************************************)
(* Rational arithmetic (the float operations the code uses).               *)
(***************************************************************************)
Abs(x) == IF x < 0 THEN -x ELSE x

RECURSIVE GCD(_, _)
GCD(a, b) == IF b = 0 THEN a ELSE GCD(b, a % b)

NaN == [n |-> 0, d |-> 0]
PosInf == [n |-> 1, d |-> 0]
IsNaN(x) == x.d = 0 /\ x.n = 0
Sgn(k) == IF k > 0 THEN 1 ELSE IF k < 0 THEN -1 ELSE 0

\* the float n / d
Q(n, d) ==
    IF d = 0 THEN [n |-> Sgn(n), d |-> 0]
    ELSE LET g == GCD(Abs(n), Abs(d))
             s == IF d < 0 THEN -1 ELSE 1
         IN  [n |-> s * (n \div g), d |-> s * (d \div g)]

I(k) == [n |-> k, d |-> 1]

RNeg(x) == [n |-> -x.n, d |-> x.d]
RAdd(x, y) ==
    IF IsNaN(x) \/ IsNaN(y) THEN NaN
    ELSE IF x.d = 0 /\ y.d = 0 THEN (IF x.n = y.n THEN x ELSE NaN)
    ELSE Q(x.n * y.d + y.n * x.d, x.d * y.d)
RSub(x, y) == RAdd(x, RNeg(y))
RMul(x, y) == IF IsNaN(x) \/ IsNaN(y) THEN NaN ELSE Q(x.n * y.n, x.d * y.d)
\* x / y = x * (1 / y), with 1 / 0.0 = inf as numpy divides
RDiv(x, y) ==
    RMul(x, IF IsNaN(y) THEN NaN
            ELSE IF y.d = 0 THEN I(0)
            ELSE IF y.n = 0 THEN PosInf
            ELSE Q(Sgn(y.n) * y.d, Abs(y.n)))
\* comparisons with NaN are false, as for floats
RLt(x, y) ==
    /\ ~IsNaN(x) /\ ~IsNaN(y)
    /\ IF x.d = 0 \/ y.d = 0
       THEN (IF x.d = 0 THEN x.n ELSE 0) < (IF y.d = 0 THEN y.n ELSE 0)
       ELSE x.n * y.d < y.n * x.d
RLe(x, y) == ~IsNaN(x) /\ ~IsNaN(y) /\ (x = y \/ RLt(x, y))
\* max(a, b) without the floor a
PyMax_NoFloor(a, b) == b

\* Python's max(a, b): b if b > a else a
PyMax(a, b) == IF RLt(a, b) THEN b ELSE a

\* np.min / np.max of a non-empty array: NaN if any sample is NaN
RECURSIVE NpMin(_)
NpMin(arr) ==
    IF Len(arr) = 1 THEN arr[1]
    ELSE LET m == NpMin(Tail(arr))
         IN  IF IsNaN(arr[1]) \/ IsNaN(m) THEN NaN
             ELSE IF RLt(m, arr[1]) THEN m ELSE arr[1]

RECURSIVE NpMax(_)
NpMax(arr) ==
    IF Len(arr) = 1 THEN arr[1]
    ELSE LET m == NpMax(Tail(arr))
         IN  IF IsNaN(arr[1]) \/ IsNaN(m) THEN NaN
             ELSE IF RLt(arr[1], m) THEN m ELSE arr[1]

\* np.clip(x, lo, hi) on one sample: NaN stays NaN
NpClip(x, lo, hi) ==
    IF IsNaN(x) THEN NaN
    ELSE IF RLt(x, lo) THEN lo
    ELSE IF RLt(hi, x) THEN hi
    ELSE x

(***************************************************************************)
(* Python dicts: ordered association lists.                                *)
(***************************************************************************)
DictHas(dct, k) == \E i \in 1..Len(dct) : dct[i].k = k
DictGet(dct, k) == dct[CHOOSE i \in 1..Len(dct) : dct[i].k = k].v
DictKeys(dct) == [i \in 1..Len(dct) |-> dct[i].k]
\* dct[k] = v: overwrite in place if the key exists, append otherwise
DictSet(dct, k, v) ==
    IF DictHas(dct, k)
    THEN [dct EXCEPT ![CHOOSE i \in 1..Len(dct) : dct[i].k = k] = [k |-> k, v |-> v]]
    ELSE Append(dct, [k |-> k, v |-> v])

(***************************************************************************)
(* geoflow/well_data.py                                                    *)
(***************************************************************************)
\* LAS files on disk, as lasio.read parses them.  readable = FALSE is a file
\* lasio.read raises on.  has_well says whether the header has a WELL item.
LasFiles ==
    { [stem |-> "a", readable |-> TRUE, has_well |-> TRUE, well |-> "W1",
       curves |-> << [mnemonic |-> "DEPT", unit |-> "ft", descr |-> "Depth",
                      data |-> <<I(100), I(200), I(300)>>],
                     [mnemonic |-> "GR", unit |-> "API", descr |-> "",
                      data |-> <<I(30), I(90), I(150)>>],
                     [mnemonic |-> "RHOB", unit |-> "g/cc", descr |-> "Density",
                      data |-> <<Q(265, 100), I(2), I(1)>>] >>],
      [stem |-> "b", readable |-> TRUE, has_well |-> TRUE, well |-> "W1",
       curves |-> << [mnemonic |-> "DEPTH", unit |-> "m", descr |-> "",
                      data |-> <<I(50)>>],
                     [mnemonic |-> "GR", unit |-> "", descr |-> "",
                      data |-> <<NaN>>] >>],
      [stem |-> "c", readable |-> TRUE, has_well |-> FALSE, well |-> "",
       curves |-> << [mnemonic |-> "MD", unit |-> "ft", descr |-> "",
                      data |-> <<I(0), I(10)>>],
                     [mnemonic |-> "DEPTH", unit |-> "ft", descr |-> "",
                      data |-> <<I(400), I(420)>>],
                     [mnemonic |-> "NPHI", unit |-> "", descr |-> "",
                      data |-> <<Q(1, 4), Q(1, 5)>>] >>],
      [stem |-> "d", readable |-> TRUE, has_well |-> TRUE, well |-> "W2",
       curves |-> << [mnemonic |-> "GR", unit |-> "API", descr |-> "",
                      data |-> <<I(10), I(200)>>] >>],
      [stem |-> "bad", readable |-> FALSE, has_well |-> FALSE, well |-> "",
       curves |-> << >>] }

\* WellLogData.__init__
NewWellLogData ==
    [name |-> "Unknown Well", data_rows |-> -1, curves |-> << >>,
     units |-> << >>, descriptions |-> << >>]

\* the loop of load_from_las over the curves: dct[curve.mnemonic] = the unit,
\* the descr or the data of the curve
RECURSIVE LasDict(_, _, _)
LasDict(dct, cs, field) ==
    IF cs = << >> THEN dct
    ELSE LasDict(DictSet(dct, cs[1].mnemonic, cs[1][field]), Tail(cs), field)

\* WellLogData.load_from_las: [ok, well], well being the object afterwards
LoadFromLas(self, file) ==
    IF ~file.readable
    THEN [ok |-> FALSE, well |-> self]
    ELSE LET data_dict == LasDict(<< >>, file.curves, "data")
         IN  [ok |-> TRUE,
              well |-> [name |-> IF file.has_well THEN file.well ELSE file.stem,
                        data_rows |-> IF data_dict = << >> THEN 0
                                      ELSE Len(data_dict[1].v),
                        curves |-> data_dict,
                        units |-> LasDict(self.units, file.curves, "unit"),
                        descriptions |-> LasDict(self.descriptions, file.curves, "descr")]]

depth_candidates == <<"DEPT", "DEPTH", "MD", "TVD">>

RECURSIVE FirstPresent(_, _)
FirstPresent(cands, curves) ==
    IF cands = << >> THEN "None"
    ELSE IF DictHas(curves, cands[1]) THEN cands[1]
    ELSE FirstPresent(Tail(cands), curves)

\* the first curve, in insertion order, that is a depth candidate
RECURSIVE FirstCandidateCurve(_)
FirstCandidateCurve(curves) ==
    IF curves = << >> THEN "None"
    ELSE IF \E i \in 1..Len(depth_candidates) : depth_candidates[i] = curves[1].k
    THEN curves[1].k
    ELSE FirstCandidateCurve(Tail(curves))

\* WellLogData._find_depth_curve ("None" is Python's None)
FindDepthCurve(curves) == FirstPresent(depth_candidates, curves)

\* calculate_shale_volume without the clip
CalculateShaleVolume_NoClip(well, gr_curve, gr_clean, gr_shale) ==
    IF ~DictHas(well.curves, gr_curve)
    THEN [some |-> FALSE, arr |-> << >>]
    ELSE LET gr == DictGet(well.curves, gr_curve)
         IN  [some |-> TRUE,
              arr |-> [i \in 1..Len(gr) |->
                         RDiv(RSub(gr[i], gr_clean), RSub(gr_shale, gr_clean))]]

\* calculate_shale_volume with the two calibration points exchanged
CalculateShaleVolume_SwappedPoints(well, gr_curve, gr_clean, gr_shale) ==
    IF ~DictHas(well.curves, gr_curve)
    THEN [some |-> FALSE, arr |-> << >>]
    ELSE LET gr == DictGet(well.curves, gr_curve)
         IN  [some |-> TRUE,
              arr |-> [i \in 1..Len(gr) |->
                         NpClip(RDiv(RSub(gr[i], gr_shale), RSub(gr_clean, gr_shale)),
                                I(0), I(1))]]

\* WellLogData.calculate_shale_volume: [some, arr]; some = FALSE is None
CalculateShaleVolume(well, gr_curve, gr_clean, gr_shale) ==
    IF ~DictHas(well.curves, gr_curve)
    THEN [some |-> FALSE, arr |-> << >>]
    ELSE LET gr == DictGet(well.curves, gr_curve)
         IN  [some |-> TRUE,
              arr |-> [i \in 1..Len(gr) |->
                         NpClip(RDiv(RSub(gr[i], gr_clean), RSub(gr_shale, gr_clean)),
                                I(0), I(1))]]

\* calculate_porosity without the clip
CalculatePorosity_NoClip(well, density_curve, fluid_density, matrix_density) ==
    IF ~DictHas(well.curves, density_curve)
    THEN [some |-> FALSE, arr |-> << >>]
    ELSE LET rhob == DictGet(well.curves, density_curve)
         IN  [some |-> TRUE,
              arr |-> [i \in 1..Len(rhob) |->
                         RDiv(RSub(matrix_density, rhob[i]),
                              RSub(matrix_density, fluid_density))]]

\* calculate_porosity without the test for a missing curve: no samples
CalculatePorosity_NoMissingTest(well, density_curve, fluid_density, matrix_density) ==
    LET rhob == IF DictHas(well.curves, density_curve)
                THEN DictGet(well.curves, density_curve) ELSE << >>
    IN  [some |-> TRUE,
         arr |-> [i \in 1..Len(rhob) |->
                    NpClip(RDiv(RSub(matrix_density, rhob[i]),
                                RSub(matrix_density, fluid_density)),
                           I(0), I(1))]]

\* WellLogData.calculate_porosity
CalculatePorosity(well, density_curve, fluid_density, matrix_density) ==
    IF ~DictHas(well.curves, density_curve)
    THEN [some |-> FALSE, arr |-> << >>]
    ELSE LET rhob == DictGet(well.curves, density_curve)
         IN  [some |-> TRUE,
              arr |-> [i \in 1..Len(rhob) |->
                         NpClip(RDiv(RSub(matrix_density, rhob[i]),
                                     RSub(matrix_density, fluid_density)),
                                I(0), I(1))]]

\* default arguments of the two derivations
DefaultGrClean == I(30)
DefaultGrShale == I(150)
DefaultFluidDensity == I(1)
DefaultMatrixDensity == Q(265, 100)

(***************************************************************************)
(* Text: float(text) and f"{x:.0f}".                                       *)
(***************************************************************************)
Digits == <<"0", "1", "2", "3", "4", "5", "6", "7", "8", "9">>

RECURSIVE Pow10(_)
Pow10(k) == IF k = 0 THEN 1 ELSE 10 * Pow10(k - 1)

\* value of a string of digits, most significant first
RECURSIVE DigitsVal(_)
DigitsVal(t) ==
    IF t = << >> THEN 0
    ELSE 10 * DigitsVal(SubSeq(t, 1, Len(t) - 1)) 
         + (CHOOSE k \in 1..10 : Digits[k] = t[Len(t)]) - 1

\* decimal digits of a natural number
RECURSIVE NatText(_)
NatText(k) ==
    IF k < 10 THEN <<Digits[k + 1]>>
    ELSE Append(NatText(k \div 10), Digits[(k % 10) + 1])

DotPos(t) == IF \E i \in 1..Len(t) : t[i] = "." THEN CHOOSE i \in 1..Len(t) : t[i] = "." ELSE 0

\* float(text) for the forms [sign] digits [. digits], nan and inf:
\* [ok, val]; ok = FALSE is ValueError
ParseUnsigned(t) ==
    IF t = <<"n", "a", "n">> THEN [ok |-> TRUE, val |-> NaN]
    ELSE IF t = <<"i", "n", "f">> THEN [ok |-> TRUE, val |-> PosInf]
    ELSE LET ds == SelectSeq(t, LAMBDA x : x # ".")
         IN  IF /\ ds # << >>
                /\ Len(t) - Len(ds) <= 1
                /\ \A i \in 1..Len(ds) : \E k \in 1..10 : Digits[k] = ds[i]
             THEN [ok |-> TRUE,
                   val |-> Q(DigitsVal(ds),
                             IF DotPos(t) = 0 THEN 1 ELSE Pow10(Len(t) - DotPos(t)))]
             ELSE [ok |-> FALSE, val |-> NaN]

ParseFloat(t) ==
    IF t # << >> /\ t[1] = "-"
    THEN LET r == ParseUnsigned(Tail(t)) IN [ok |-> r.ok, val |-> RNeg(r.val)]
    ELSE IF t # << >> /\ t[1] = "+" THEN ParseUnsigned(Tail(t))
    ELSE ParseUnsigned(t)

\* f"{x:.0f}": the nearest integer k, ties to even
FormatF0(x) ==
    IF IsNaN(x) THEN <<"n", "a", "n">>
    ELSE IF x = PosInf THEN <<"i", "n", "f">>
    ELSE IF x = RNeg(PosInf) THEN <<"-", "i", "n", "f">>
    ELSE LET q == x.n \div x.d
             r == x.n - q * x.d
             k == IF 2 * r < x.d THEN q
                  ELSE IF 2 * r > x.d THEN q + 1
                  ELSE IF q % 2 = 0 THEN q ELSE q + 1
         IN  IF x.n < 0 THEN <<"-">> \o NatText(Abs(k)) ELSE NatText(k)

\* a float written as f"{x:.0f}" writes it: no fraction part
FloatRepr_NoFraction(x) == FormatF0(x)

\* float.__repr__ as json.dump writes a float: NaN, Infinity and -Infinity
\* as one word each, else the shortest decimal that reads back as x, always
\* with a fraction part; the floats written here have at most six decimals
FloatRepr(x) ==
    IF IsNaN(x) THEN <<"NaN">>
    ELSE IF x.d = 0 THEN (IF x.n > 0 THEN <<"Infinity">> ELSE <<"-Infinity">>)
    ELSE LET k == CHOOSE j \in 0..6 :
                     /\ j = 6 \/ (Abs(x.n) * Pow10(j)) % x.d = 0
                     /\ \A h \in 0..(j - 1) : (Abs(x.n) * Pow10(h)) % x.d # 0
             scaled == (2 * Abs(x.n) * Pow10(k) + x.d) \div (2 * x.d)
             frac == NatText(scaled % Pow10(k))
         IN  (IF x.n < 0 THEN <<"-">> ELSE << >>)
             \o NatText(scaled \div Pow10(k)) \o <<".">>
             \o (IF k = 0 THEN <<"0">>
                 ELSE [i \in 1..k |-> IF i <= k - Len(frac) THEN "0"
                                      ELSE frac[i - (k - Len(frac))]])

(***************************************************************************)
(* geoflow/ui/well_section.py: Track and WellSectionCanvas.                *)
(* A canvas is a record cv; heap maps object ids to WellLogData objects;   *)
(* id 0 is None.  An operation that can raise returns [cv, exc], exc being *)
(* "" or the exception's name, cv the state at the raise.                  *)
(***************************************************************************)
\* Track.__init__ (axis = None: no matplotlib axis made yet)
Track(name, width, color) ==
    [name |-> name, width |-> width, color |-> color, curves |-> << >>,
     axis |-> [made |-> FALSE, ylim |-> <<I(0), I(1)>>, lines |-> << >>]]

\* Axes.set_ylim(bottom, top) on a fresh or existing axis: matplotlib raises
\* ValueError on NaN or inf and widens identical limits by 5 percent
SetYlim(axis, bottom, top) ==
    IF bottom.d = 0 \/ top.d = 0
    THEN [axis |-> axis, exc |-> "ValueError"]
    ELSE IF bottom = top
    THEN [axis |-> [axis EXCEPT !.ylim =
                      IF bottom.n = 0 THEN <<Q(-1, 20), Q(1, 20)>>
                      ELSE <<RSub(bottom, RMul(Q(1, 20), [n |-> Abs(bottom.n), d |-> bottom.d])),
                             RAdd(top, RMul(Q(1, 20), [n |-> Abs(top.n), d |-> top.d]))>>],
          exc |-> ""]
    ELSE [axis |-> [axis EXCEPT !.ylim = <<bottom, top>>], exc |-> ""]

\* the loop of setup_display over tracks i..: a new subplot per track
RECURSIVE SetupTracks(_, _, _)
SetupTracks(tracks, i, depth_range) ==
    IF i > Len(tracks) THEN [tracks |-> tracks, exc |-> ""]
    ELSE LET r == SetYlim([made |-> TRUE, ylim |-> <<I(0), I(1)>>, lines |-> << >>],
                          depth_range[2], depth_range[1])
             t1 == [tracks EXCEPT ![i].axis = r.axis]
         IN  IF r.exc # "" THEN [tracks |-> t1, exc |-> r.exc]
             ELSE SetupTracks(t1, i + 1, depth_range)

\* WellSectionCanvas.setup_display
SetupDisplay(cv) ==
    LET tracks0 == IF cv.tracks = << >>
                   THEN << Track("Depth", Q(1, 2), "black"),
                           Track("GR", I(1), "green"),
                           Track("Resistivity", I(1), "blue"),
                           Track("Density", I(1), "red"),
                           Track("Neutron", I(1), "purple") >>
                   ELSE cv.tracks
        r == SetupTracks(tracks0, 1, cv.depth_range)
    IN  [cv |-> [cv EXCEPT !.tracks = r.tracks], exc |-> r.exc]

\* _get_track_for_curve with the depth track as the default
TrackForCurve_DepthDefault(curve_name) ==
    IF curve_name \in {"DEPT", "DEPTH", "MD", "TVD"} THEN 0
    ELSE IF curve_name \in {"GR", "GR_EDTC", "CGR"} THEN 1
    ELSE IF curve_name \in {"RT", "ILD", "LLD", "MSFL", "LLS"} THEN 2
    ELSE IF curve_name \in {"RHOB", "RHOZ", "DRHO"} THEN 3
    ELSE IF curve_name \in {"NPHI", "NPOR", "TNPH"} THEN 4
    ELSE 0

\* WellSectionCanvas._get_track_for_curve (0-based track index)
TrackForCurve(curve_name) ==
    IF curve_name \in {"DEPT", "DEPTH", "MD", "TVD"} THEN 0
    ELSE IF curve_name \in {"GR", "GR_EDTC", "CGR"} THEN 1
    ELSE IF curve_name \in {"RT", "ILD", "LLD", "MSFL", "LLS"} THEN 2
    ELSE IF curve_name \in {"RHOB", "RHOZ", "DRHO"} THEN 3
    ELSE IF curve_name \in {"NPHI", "NPOR", "TNPH"} THEN 4
    ELSE 1

\* first loop of update_display: clear every axis and set its depth limits
RECURSIVE ClearTracks(_, _, _)
ClearTracks(tracks, i, depth_range) ==
    IF i > Len(tracks) THEN [tracks |-> tracks, exc |-> ""]
    ELSE IF ~tracks[i].axis.made THEN [tracks |-> tracks, exc |-> "AttributeError"]
    ELSE LET r == SetYlim([tracks[i].axis EXCEPT !.lines = << >>],
                          depth_range[2], depth_range[1])
             t1 == [tracks EXCEPT ![i].axis = r.axis]
         IN  IF r.exc # "" THEN [tracks |-> t1, exc |-> r.exc]
             ELSE ClearTracks(t1, i + 1, depth_range)

\* second loop of update_display: plot every curve in its track
RECURSIVE PlotCurves(_, _, _)
PlotCurves(tracks, names, j) ==
    IF j > Len(names) THEN tracks
    ELSE LET track_idx == TrackForCurve(names[j])
         IN  IF track_idx >= Len(tracks) THEN PlotCurves(tracks, names, j + 1)
             ELSE PlotCurves(
                    [tracks EXCEPT ![track_idx + 1].axis.lines = Append(@, names[j])],
                    names, j + 1)

\* WellSectionCanvas.update_display
UpdateDisplay(cv, heap) ==
    IF cv.well_data = 0 THEN [cv |-> cv, exc |-> ""]
    ELSE LET r == ClearTracks(cv.tracks, 1, cv.depth_range)
         IN  IF r.exc # "" THEN [cv |-> [cv EXCEPT !.tracks = r.tracks], exc |-> r.exc]
             ELSE IF r.tracks = << >> THEN [cv |-> cv, exc |-> "IndexError"]
             ELSE [cv |-> [cv EXCEPT !.tracks =
                              PlotCurves(r.tracks, DictKeys(heap[cv.well_data].curves), 1)],
                   exc |-> ""]

\* a depth extent that starts at 0
DepthExtent_FromZero(well, depth_curve) ==
    <<I(0), NpMax(DictGet(well.curves, depth_curve))>>

\* the depth extent set_well_data and fit_to_data compute
DepthExtent(well, depth_curve) ==
    LET depth_data == DictGet(well.curves, depth_curve)
    IN  <<NpMin(depth_data), NpMax(depth_data)>>

\* WellSectionCanvas.set_well_data
SetWellData(cv, heap, id) ==
    LET depth_curve == FindDepthCurve(heap[id].curves)
        cv1 == [cv EXCEPT !.well_data = id, !.depth_curve = depth_curve]
        cv2 == IF depth_curve # "None"
               THEN [cv1 EXCEPT !.depth_range = DepthExtent(heap[id], depth_curve)]
               ELSE cv1
    IN  UpdateDisplay(cv2, heap)

\* the loop of zoom_to_depth_range over tracks i..
RECURSIVE YlimTracks(_, _, _, _)
YlimTracks(tracks, i, bottom, top) ==
    IF i > Len(tracks) THEN [tracks |-> tracks, exc |-> ""]
    ELSE IF ~tracks[i].axis.made THEN [tracks |-> tracks, exc |-> "AttributeError"]
    ELSE LET r == SetYlim(tracks[i].axis, bottom, top)
             t1 == [tracks EXCEPT ![i].axis = r.axis]
         IN  IF r.exc # "" THEN [tracks |-> t1, exc |-> r.exc]
             ELSE YlimTracks(t1, i + 1, bottom, top)

\* WellSectionCanvas.zoom_to_depth_range
ZoomToDepthRange(cv, min_depth, max_depth) ==
    LET r == YlimTracks(cv.tracks, 1, max_depth, min_depth)
    IN  [cv |-> [cv EXCEPT !.depth_range = <<min_depth, max_depth>>, !.tracks = r.tracks],
         exc |-> r.exc]

\* the zoom about the centre that on_scroll, zoom_in and zoom_out share:
\* factor is 0.9, 1.1, 0.7 or 1.4
ZoomBy(cv, factor) ==
    LET depth_span == RSub(cv.depth_range[2], cv.depth_range[1])
        center == RDiv(RAdd(cv.depth_range[1], cv.depth_range[2]), I(2))
        new_span == RMul(depth_span, factor)
    IN  ZoomToDepthRange(cv, RSub(center, RDiv(new_span, I(2))),
                             RAdd(center, RDiv(new_span, I(2))))

\* figure width in pixels: get_size_inches()[0] * dpi, the canvas being built
\* with width = 12 and dpi = 100
FigWidthInches == 12
FigDpi == 100

RECURSIVE SumWidths(_)
SumWidths(tracks) ==
    IF tracks = << >> THEN I(0) ELSE RAdd(tracks[1].width, SumWidths(Tail(tracks)))

\* the loop of _get_track_at_position from track i (1-based) on; the result is
\* the 0-based track index, or -1 for None
RECURSIVE TrackAtFrom(_, _, _, _, _)
TrackAtFrom(tracks, i, cumulative_width, total_width, x_pixel) ==
    IF i > Len(tracks) THEN -1
    ELSE LET track_width_pixels ==
                 RMul(RDiv(tracks[i].width, total_width), I(FigWidthInches * FigDpi))
             right == RAdd(cumulative_width, track_width_pixels)
         IN  IF RLe(cumulative_width, x_pixel) /\ RLt(x_pixel, right)
             THEN (IF RLe(RSub(right, I(5)), x_pixel) THEN i - 1 ELSE -1)
             ELSE TrackAtFrom(tracks, i + 1, right, total_width, x_pixel)

\* drag_start_x = None
NoneNum == [n |-> 0, d |-> -1]

(***************************************************************************)
(* geoflow/well_data.py: WellDataManager, and the state of one             *)
(* EnhancedWellSectionWidget (geoflow/ui/well_section.py).                 *)
(***************************************************************************)
VARIABLES
    arg_well,           \* the WellLogData object a well_data.py method is called on
    arg_cal,            \* the two calibration arguments of the call
    result,             \* the call made and what it returned
    heap,               \* the WellLogData objects created so far, by object id
    wells,              \* well_manager.wells: dict name -> object id
    current_well,       \* widget.current_well: object id, 0 for None
    canvas,             \* widget.canvas
    template_file,      \* the file save_template wrote in templates/, NoTemplate if none
    combo_items,        \* items of well_combo
    combo_text,         \* well_combo.currentText()
    min_depth_edit,     \* text of min_depth_edit
    max_depth_edit,     \* text of max_depth_edit
    status_label,       \* status_label: [msg, arg]
    calc_enabled,       \* calc_shale_btn / calc_porosity_btn enabled
    n_ops               \* handlers run so far (bounded by MaxOps)

VARIABLES
    files,              \* the project directory: path -> file
    window,             \* the GeoflowMainWindow of the running application
    workspace_state,    \* window.workspace.state
    save_pc,            \* the point WorkspaceState.save has reached
    committed,          \* the last complete content of the session file
    reader_saw,         \* what the last read of the session file returned
    autosaved,          \* the state the last completed autosave of this window wrote
    n_session_ops       \* steps of the session so far (bounded by MaxSessionOps)

section_vars ==
    <<heap, wells, current_well, canvas, template_file, combo_items, combo_text, min_depth_edit,
      max_depth_edit, status_label, calc_enabled, n_ops>>

call_vars == <<arg_well, arg_cal, result>>

session_vars ==
    <<files, window, workspace_state, save_pc, committed, reader_saw, autosaved,
      n_session_ops>>

Status(msg, arg) == [msg |-> msg, arg |-> arg]

\* load_well registering the object before it looks at the result of the load
ManagerLoadWell_RegisterFirst(hp, ws, file) ==
    LET r == LoadFromLas(NewWellLogData, file)
    IN  [name |-> IF r.ok THEN r.well.name ELSE "None",
         heap |-> Append(hp, r.well),
         wells |-> DictSet(ws, r.well.name, Len(hp) + 1)]

\* load_well keeping the well already registered under the name
ManagerLoadWell_KeepFirst(hp, ws, file) ==
    LET r == LoadFromLas(NewWellLogData, file)
    IN  IF r.ok
        THEN [name |-> r.well.name,
              heap |-> Append(hp, r.well),
              wells |-> IF DictHas(ws, r.well.name) THEN ws
                        ELSE DictSet(ws, r.well.name, Len(hp) + 1)]
        ELSE [name |-> "None", heap |-> hp, wells |-> ws]

\* WellDataManager.load_well: [name, heap, wells]; name "None" is None
ManagerLoadWell(hp, ws, file) ==
    LET r == LoadFromLas(NewWellLogData, file)
    IN  IF r.ok
        THEN [name |-> r.well.name,
              heap |-> Append(hp, r.well),
              wells |-> DictSet(ws, r.well.name, Len(hp) + 1)]
        ELSE [name |-> "None", heap |-> hp, wells |-> ws]

\* the widget fields the handlers below change
WidgetState ==
    [current_well |-> current_well, canvas |-> canvas, status_label |-> status_label,
     calc_enabled |-> calc_enabled, min_depth_edit |-> min_depth_edit,
     max_depth_edit |-> max_depth_edit]

\* EnhancedWellSectionWidget.on_well_selected; id is what
\* WellDataManager.get_well returns, 0 for None
OnWellSelected(w, hp, ws, well_name) ==
    IF well_name # "" /\ well_name # "Select Well..."
    THEN LET id == IF DictHas(ws, well_name) THEN DictGet(ws, well_name) ELSE 0
             w1 == [w EXCEPT !.current_well = id]
         IN  IF id # 0
             THEN LET r == SetWellData(w1.canvas, hp, id)
                      w2 == [w1 EXCEPT !.canvas = r.cv]
                  IN  IF r.exc # "" THEN w2
                      ELSE LET w3 == [w2 EXCEPT !.calc_enabled = TRUE,
                                                !.status_label = Status("Selected well", well_name)]
                           IN  IF r.cv.depth_curve # "None"
                               THEN LET ext == DepthExtent(hp[id], r.cv.depth_curve)
                                    IN  [w3 EXCEPT !.min_depth_edit = FormatF0(ext[1]),
                                                   !.max_depth_edit = FormatF0(ext[2])]
                               ELSE w3
             ELSE [w1 EXCEPT !.status_label = Status("Well not found", "")]
    ELSE [w EXCEPT !.current_well = 0, !.calc_enabled = FALSE]

\* update_depth_range without the min_depth < max_depth test
UpdateDepthRangeWidget_NoOrderTest(w) ==
    LET pmin == ParseFloat(w.min_depth_edit)
        pmax == ParseFloat(w.max_depth_edit)
    IN  IF ~pmin.ok \/ ~pmax.ok
        THEN [w EXCEPT !.status_label = Status("Invalid depth values", "")]
        ELSE LET r == ZoomToDepthRange(w.canvas, pmin.val, pmax.val)
             IN  IF r.exc = "ValueError"
                 THEN [w EXCEPT !.canvas = r.cv,
                                !.status_label = Status("Invalid depth values", "")]
                 ELSE IF r.exc # "" THEN [w EXCEPT !.canvas = r.cv]
                 ELSE [w EXCEPT !.canvas = r.cv, !.status_label = Status("Depth range", "")]

\* EnhancedWellSectionWidget.update_depth_range
UpdateDepthRangeWidget(w) ==
    LET pmin == ParseFloat(w.min_depth_edit)
        pmax == ParseFloat(w.max_depth_edit)
    IN  IF ~pmin.ok \/ ~pmax.ok
        THEN [w EXCEPT !.status_label = Status("Invalid depth values", "")]
        ELSE IF RLt(pmin.val, pmax.val)
        THEN LET r == ZoomToDepthRange(w.canvas, pmin.val, pmax.val)
             IN  IF r.exc = "ValueError"
                 THEN [w EXCEPT !.canvas = r.cv,
                                !.status_label = Status("Invalid depth values", "")]
                 ELSE IF r.exc # "" THEN [w EXCEPT !.canvas = r.cv]
                 ELSE [w EXCEPT !.canvas = r.cv, !.status_label = Status("Depth range", "")]
        ELSE [w EXCEPT !.status_label = Status("Invalid depth range", "")]

\* EnhancedWellSectionWidget.update_depth_inputs
UpdateDepthInputs(w) ==
    [w EXCEPT !.min_depth_edit = FormatF0(w.canvas.depth_range[1]),
              !.max_depth_edit = FormatF0(w.canvas.depth_range[2])]

\* EnhancedWellSectionWidget.zoom_in / zoom_out (factor 0.7 / 1.4)
ZoomWidget(w, factor) ==
    LET r == ZoomBy(w.canvas, factor)
        w1 == [w EXCEPT !.canvas = r.cv]
    IN  IF r.exc # "" THEN w1 ELSE UpdateDepthInputs(w1)

\* Template files in templates/, as json.load reads them: valid_json = FALSE
\* is a file json.load raises on; an entry with complete = FALSE lacks one of
\* the keys name, width, color, curves.
TemplateFiles ==
    { [valid_json |-> TRUE, has_tracks |-> TRUE, has_name |-> TRUE, name |-> "two",
       tracks |-> << [complete |-> TRUE, name |-> "Depth", width |-> Q(1, 2),
                      color |-> "black", curves |-> << >>],
                     [complete |-> TRUE, name |-> "Logs", width |-> I(2),
                      color |-> "green", curves |-> <<"GR">>] >>],
      [valid_json |-> TRUE, has_tracks |-> TRUE, has_name |-> TRUE, name |-> "partial",
       tracks |-> << [complete |-> TRUE, name |-> "Depth", width |-> Q(1, 2),
                      color |-> "black", curves |-> << >>],
                     [complete |-> FALSE, name |-> "Logs", width |-> I(1),
                      color |-> "green", curves |-> << >>] >>],
      [valid_json |-> TRUE, has_tracks |-> TRUE, has_name |-> TRUE, name |-> "thin",
       tracks |-> << [complete |-> TRUE, name |-> "Depth", width |-> Q(1, 20),
                      color |-> "black", curves |-> << >>],
                     [complete |-> TRUE, name |-> "GR", width |-> I(1),
                      color |-> "green", curves |-> <<"GR">>] >>],
      [valid_json |-> TRUE, has_tracks |-> TRUE, has_name |-> TRUE, name |-> "empty",
       tracks |-> << >>],
      [valid_json |-> FALSE, has_tracks |-> FALSE, has_name |-> FALSE, name |-> "",
       tracks |-> << >>] }

\* no file written by save_template
NoTemplate == [name |-> "", tracks |-> << >>]

\* json.load of a file save_template wrote: every number of the file is read
\* as a float, NaN, Infinity and -Infinity being three of them
TemplateLoad(file) ==
    [valid_json |-> TRUE, has_tracks |-> TRUE, has_name |-> TRUE, name |-> file.name,
     tracks |-> [i \in 1..Len(file.tracks) |->
                   [complete |-> TRUE, name |-> file.tracks[i].name,
                    width |-> IF file.tracks[i].width = <<"NaN">> THEN NaN
                              ELSE IF file.tracks[i].width = <<"Infinity">> THEN PosInf
                              ELSE IF file.tracks[i].width = <<"-Infinity">>
                              THEN RNeg(PosInf)
                              ELSE ParseFloat(file.tracks[i].width).val,
                    color |-> file.tracks[i].color, curves |-> file.tracks[i].curves]]]

\* the loop of load_template over the entries of template_data['tracks']
RECURSIVE TemplateTracks(_, _)
TemplateTracks(tracks, entries) ==
    IF entries = << >> THEN [tracks |-> tracks, exc |-> ""]
    ELSE IF ~entries[1].complete THEN [tracks |-> tracks, exc |-> "KeyError"]
    ELSE TemplateTracks(
           Append(tracks, [Track(entries[1].name, entries[1].width, entries[1].color)
                             EXCEPT !.curves = entries[1].curves]),
           Tail(entries))

(***************************************************************************)
(* The section view: the handlers of one EnhancedWellSectionWidget.        *)
(***************************************************************************)
\* inputs of the model: the texts typed into the two depth edits
DepthTexts ==
    { << <<"1", "0", "0">>, <<"5", "0", "0">> >>,
      << <<"5", "0", "0">>, <<"1", "0", "0">> >>,
      << <<"1", "0", "0">>, <<"1", "0", "0">> >>,
      << <<"x">>, <<"5", "0", "0">> >>,
      << <<"1", "0", "0">>, <<"i", "n", "f">> >> }

\* one more handler has run
Tick == n_ops < MaxOps /\ n_ops' = n_ops + 1 /\ UNCHANGED <<call_vars, session_vars>>

SetWidget(w) ==
    /\ current_well' = w.current_well
    /\ canvas' = w.canvas
    /\ status_label' = w.status_label
    /\ calc_enabled' = w.calc_enabled
    /\ min_depth_edit' = w.min_depth_edit
    /\ max_depth_edit' = w.max_depth_edit

\* the widget after EnhancedWellSectionWidget.__init__, its canvas after
\* WellSectionCanvas.__init__
NewWidget ==
    [heap |-> << >>, wells |-> << >>, current_well |-> 0,
     canvas |-> SetupDisplay([depth_range |-> <<I(0), I(1000)>>, tracks |-> << >>,
                              well_data |-> 0, depth_curve |-> "None", dragging |-> FALSE,
                              drag_track_idx |-> -1, drag_start_x |-> NoneNum]).cv,
     combo_items |-> <<"Select Well...">>, combo_text |-> "Select Well...",
     min_depth_edit |-> <<"0">>, max_depth_edit |-> <<"1", "0", "0", "0">>,
     status_label |-> Status("Ready", ""), calc_enabled |-> FALSE]

SectionInit ==
    /\ heap = NewWidget.heap
    /\ wells = NewWidget.wells
    /\ current_well = NewWidget.current_well
    /\ canvas = NewWidget.canvas
    /\ template_file = NoTemplate
    /\ combo_items = NewWidget.combo_items
    /\ combo_text = NewWidget.combo_text
    /\ min_depth_edit = NewWidget.min_depth_edit
    /\ max_depth_edit = NewWidget.max_depth_edit
    /\ status_label = NewWidget.status_label
    /\ calc_enabled = NewWidget.calc_enabled
    /\ n_ops = 0

\* EnhancedWellSectionWidget.load_well, a file having been chosen;
\* setCurrentText fires currentTextChanged, and so on_well_selected, only
\* when the text changes
LoadWell(file) ==
    /\ Tick
    /\ UNCHANGED template_file
    /\ Len(heap) < MaxLoads
    /\ LET m == ManagerLoadWell(heap, wells, file)
       IN  /\ heap' = m.heap
           /\ wells' = m.wells
           /\ IF m.name # "None" /\ m.name # ""
              THEN /\ combo_items' = Append(combo_items, m.name)
                   /\ combo_text' = m.name
                   /\ SetWidget([(IF m.name # combo_text
                                   THEN OnWellSelected(WidgetState, m.heap, m.wells, m.name)
                                   ELSE WidgetState)
                                   EXCEPT !.status_label = Status("Loaded well", m.name)])
              ELSE /\ SetWidget([WidgetState EXCEPT
                                   !.status_label = Status("Failed to load well", "")])
                   /\ UNCHANGED <<combo_items, combo_text>>

\* the user picks another item of well_combo: on_well_selected
SelectWell(text) ==
    /\ Tick
    /\ UNCHANGED template_file
    /\ \E i \in 1..Len(combo_items) : combo_items[i] = text
    /\ text # combo_text
    /\ combo_text' = text
    /\ SetWidget(OnWellSelected(WidgetState, heap, wells, text))
    /\ UNCHANGED <<heap, wells, combo_items>>

\* the user types tmin and tmax into the two depth edits and presses return in
\* one of them: update_depth_range
UpdateDepthRange(tmin, tmax) ==
    /\ Tick
    /\ UNCHANGED template_file
    /\ SetWidget(UpdateDepthRangeWidget([WidgetState EXCEPT !.min_depth_edit = tmin,
                                                            !.max_depth_edit = tmax]))
    /\ UNCHANGED <<heap, wells, combo_items, combo_text>>

\* toolbar, Fit to Data: EnhancedWellSectionWidget.fit_to_data and the
\* WellSectionCanvas.fit_to_data it calls (r)
FitToData ==
    /\ Tick
    /\ UNCHANGED template_file
    /\ LET r == IF canvas.well_data # 0 /\ canvas.depth_curve # "None"
                THEN LET ext == DepthExtent(heap[canvas.well_data], canvas.depth_curve)
                     IN  ZoomToDepthRange([canvas EXCEPT !.depth_range = ext], ext[1], ext[2])
                ELSE [cv |-> canvas, exc |-> ""]
           w1 == [WidgetState EXCEPT !.canvas = r.cv]
       IN  SetWidget(IF r.exc # "" THEN w1
                     ELSE [UpdateDepthInputs(w1) EXCEPT
                             !.status_label = Status("Fitted to data", "")])
    /\ UNCHANGED <<heap, wells, combo_items, combo_text>>

\* toolbar, Zoom In / Zoom Out: zoom_in (factor 0.7) and zoom_out (1.4)
ZoomIn ==
    /\ Tick
    /\ UNCHANGED template_file
    /\ SetWidget(ZoomWidget(WidgetState, Q(7, 10)))
    /\ UNCHANGED <<heap, wells, combo_items, combo_text>>

ZoomOut ==
    /\ Tick
    /\ UNCHANGED template_file
    /\ SetWidget(ZoomWidget(WidgetState, Q(14, 10)))
    /\ UNCHANGED <<heap, wells, combo_items, combo_text>>

\* WellSectionCanvas.on_scroll: factor 0.9 for 'up', 1.1 otherwise
OnScroll(button) ==
    /\ Tick
    /\ UNCHANGED template_file
    /\ canvas' = ZoomBy(canvas, IF button = "up" THEN Q(9, 10) ELSE Q(11, 10)).cv
    /\ UNCHANGED <<heap, wells, current_well, combo_items, combo_text, min_depth_edit,
                   max_depth_edit, status_label, calc_enabled>>

\* WellSectionCanvas.on_click, a left click inside an axis, with
\* _get_track_at_position (track_idx, -1 for None); a click that starts no
\* drag only moves the widget's depth cursor and its label, which are not
\* part of this state
OnClick(x_pixel, xdata) ==
    /\ Tick
    /\ UNCHANGED template_file
    /\ LET track_idx == IF canvas.tracks = << >> THEN -1
                        ELSE TrackAtFrom(canvas.tracks, 1, I(0), SumWidths(canvas.tracks),
                                         I(x_pixel))
       IN  canvas' = IF track_idx # -1 /\ track_idx > 0
                     THEN [canvas EXCEPT !.dragging = TRUE, !.drag_track_idx = track_idx,
                                         !.drag_start_x = xdata]
                     ELSE canvas
    /\ UNCHANGED <<heap, wells, current_well, combo_items, combo_text, min_depth_edit,
                   max_depth_edit, status_label, calc_enabled>>

\* WellSectionCanvas.on_release
OnRelease ==
    /\ Tick
    /\ UNCHANGED template_file
    /\ canvas' = IF canvas.dragging /\ canvas.drag_track_idx # -1
                 THEN [canvas EXCEPT !.dragging = FALSE, !.drag_track_idx = -1,
                                     !.drag_start_x = NoneNum]
                 ELSE canvas
    /\ UNCHANGED <<heap, wells, current_well, combo_items, combo_text, min_depth_edit,
                   max_depth_edit, status_label, calc_enabled>>

\* WellSectionCanvas.on_motion during a drag, event.xdata not None (outside a
\* drag it only updates the depth info label): the width grows by 0.01 per
\* unit of x and stays at 0.1 or more
OnMotion(xdata) ==
    /\ Tick
    /\ UNCHANGED template_file
    /\ canvas.dragging /\ canvas.drag_track_idx # -1
    /\ LET width_change == RMul(RSub(xdata, canvas.drag_start_x), Q(1, 100))
           i == canvas.drag_track_idx + 1
           r == SetupDisplay([canvas EXCEPT !.tracks[i].width =
                                PyMax(Q(1, 10), RAdd(canvas.tracks[i].width, width_change))])
       IN  canvas' = IF canvas.drag_track_idx >= Len(canvas.tracks) THEN canvas
                     ELSE IF r.exc = "" /\ r.cv.well_data # 0
                     THEN SetWellData(r.cv, heap, r.cv.well_data).cv
                     ELSE r.cv
    /\ UNCHANGED <<heap, wells, current_well, combo_items, combo_text, min_depth_edit,
                   max_depth_edit, status_label, calc_enabled>>

\* toolbar, Load Template, a file having been chosen:
\* EnhancedWellSectionWidget.load_template; every exception is caught by the
\* handler, which leaves the state as it was then
LoadTemplate(template_data) ==
    /\ Tick
    /\ UNCHANGED template_file
    /\ LET w1 == [WidgetState EXCEPT !.canvas.tracks = << >>]
           t == TemplateTracks(<< >>, template_data.tracks)
           w2 == [w1 EXCEPT !.canvas.tracks = t.tracks]
           r == SetupDisplay(w2.canvas)
           w3 == [w2 EXCEPT !.canvas = r.cv]
           r2 == IF w3.current_well # 0
                 THEN SetWellData(w3.canvas, heap, w3.current_well)
                 ELSE [cv |-> w3.canvas, exc |-> ""]
           w4 == [w3 EXCEPT !.canvas = r2.cv]
       IN  SetWidget(IF ~template_data.valid_json THEN WidgetState
                     ELSE IF ~template_data.has_tracks THEN w1
                     ELSE IF t.exc # "" THEN w2
                     ELSE IF r.exc # "" THEN w3
                     ELSE IF r2.exc # "" \/ ~template_data.has_name THEN w4
                     ELSE [w4 EXCEPT !.status_label =
                             Status("Template loaded", template_data.name)])
    /\ UNCHANGED <<heap, wells, combo_items, combo_text>>

\* toolbar, Save Template: EnhancedWellSectionWidget.save_template, the
\* input dialog returning (template_name, ok); stripped is
\* template_name.strip(), and opened = FALSE is open(template_file, 'w')
\* raising, which the handler catches; json.dump writes every width as the
\* text of the number
SaveTemplate(template_name, ok, opened) ==
    /\ Tick
    /\ LET stripped == IF template_name = " my " THEN "my"
                       ELSE IF template_name = "  " THEN ""
                       ELSE template_name
       IN  IF canvas.tracks = << >> \/ ~ok \/ stripped = "" \/ ~opened
           THEN UNCHANGED <<template_file, status_label>>
           ELSE /\ template_file' =
                     [name |-> stripped,
                      tracks |-> [i \in 1..Len(canvas.tracks) |->
                                    [name |-> canvas.tracks[i].name,
                                     width |-> FloatRepr(canvas.tracks[i].width),
                                     color |-> canvas.tracks[i].color,
                                     curves |-> canvas.tracks[i].curves]]]
                /\ status_label' = Status("Template saved", template_name)
    /\ UNCHANGED <<heap, wells, current_well, canvas, combo_items, combo_text,
                   min_depth_edit, max_depth_edit, calc_enabled>>

\* calculate_shale_volume storing VSH in place of the curves of the well
WidgetCalculateShaleVolume_DropCurves ==
    /\ Tick
    /\ UNCHANGED template_file
    /\ calc_enabled
    /\ current_well # 0
    /\ \E vsh \in {CalculateShaleVolume(heap[current_well], "GR",
                                         DefaultGrClean, DefaultGrShale)} :
         /\ vsh.some
         /\ heap' = [heap EXCEPT ![current_well].curves = << [k |-> "VSH", v |-> vsh.arr] >>]
    /\ status_label' = Status("Shale volume calculated", "")
    /\ UNCHANGED <<wells, current_well, canvas, combo_items, combo_text, min_depth_edit,
                   max_depth_edit, calc_enabled>>

\* Calculate Vsh button (enabled with a well selected):
\* EnhancedWellSectionWidget.calculate_shale_volume; the result is stored
\* in the well as the curve VSH and the canvas redrawn
WidgetCalculateShaleVolume ==
    /\ Tick
    /\ UNCHANGED template_file
    /\ calc_enabled
    /\ \E vsh \in {IF current_well = 0 THEN [some |-> FALSE, arr |-> << >>]
                    ELSE CalculateShaleVolume(heap[current_well], "GR",
                                              DefaultGrClean, DefaultGrShale)} :
         IF current_well = 0
         THEN UNCHANGED <<heap, canvas, status_label>>
         ELSE IF ~vsh.some
         THEN /\ status_label' = Status("GR curve not found for shale volume calculation", "")
              /\ UNCHANGED <<heap, canvas>>
         ELSE \E hp \in {[heap EXCEPT
                             ![current_well].curves = DictSet(@, "VSH", vsh.arr),
                             ![current_well].units = DictSet(@, "VSH", "fraction"),
                             ![current_well].descriptions = DictSet(@, "VSH", "Shale Volume")]} :
              \E r \in {UpdateDisplay(canvas, hp)} :
                 /\ heap' = hp
                 /\ canvas' = r.cv
                 /\ status_label' = IF r.exc # "" THEN status_label
                                    ELSE Status("Shale volume calculated", "")
    /\ UNCHANGED <<wells, current_well, combo_items, combo_text, min_depth_edit,
                   max_depth_edit, calc_enabled>>

\* Calculate Porosity button: EnhancedWellSectionWidget.calculate_porosity
WidgetCalculatePorosity ==
    /\ Tick
    /\ UNCHANGED template_file
    /\ calc_enabled
    /\ \E phi \in {IF current_well = 0 THEN [some |-> FALSE, arr |-> << >>]
                    ELSE CalculatePorosity(heap[current_well], "RHOB",
                                           DefaultFluidDensity, DefaultMatrixDensity)} :
         IF current_well = 0
         THEN UNCHANGED <<heap, canvas, status_label>>
         ELSE IF ~phi.some
         THEN /\ status_label' = Status("RHOB curve not found for porosity calculation", "")
              /\ UNCHANGED <<heap, canvas>>
         ELSE \E hp \in {[heap EXCEPT
                             ![current_well].curves = DictSet(@, "PHI", phi.arr),
                             ![current_well].units = DictSet(@, "PHI", "fraction"),
                             ![current_well].descriptions = DictSet(@, "PHI", "Porosity")]} :
              \E r \in {UpdateDisplay(canvas, hp)} :
                 /\ heap' = hp
                 /\ canvas' = r.cv
                 /\ status_label' = IF r.exc # "" THEN status_label
                                    ELSE Status("Porosity calculated", "")
    /\ UNCHANGED <<wells, current_well, combo_items, combo_text, min_depth_edit,
                   max_depth_edit, calc_enabled>>

SectionNext ==
    \/ \E file \in LasFiles : LoadWell(file)
    \/ \E text \in {"Select Well...", "W1", "W2", "c"} : SelectWell(text)
    \/ \E texts \in DepthTexts : UpdateDepthRange(texts[1], texts[2])
    \/ FitToData
    \/ ZoomIn
    \/ ZoomOut
    \/ \E button \in {"up", "down"} : OnScroll(button)
    \/ \E x_pixel \in {100, 1197}, xdata \in {I(50)} : OnClick(x_pixel, xdata)
    \/ OnRelease
    \/ \E xdata \in {I(0), I(150)} : OnMotion(xdata)
    \/ \E template_data \in TemplateFiles : LoadTemplate(template_data)
    \/ /\ template_file # NoTemplate
       /\ \E template_data \in {TemplateLoad(template_file)} : LoadTemplate(template_data)
    \/ \E dialog \in {<<" my ", TRUE, TRUE>>, <<"  ", TRUE, TRUE>>,
                       <<" my ", FALSE, TRUE>>, <<" my ", TRUE, FALSE>>} :
          SaveTemplate(dialog[1], dialog[2], dialog[3])
    \/ WidgetCalculateShaleVolume
    \/ WidgetCalculatePorosity

(***************************************************************************)
(* geoflow/ui/workspace.py: the session document.  A text is a sequence    *)
(* of characters; a run of ordinary characters (a key, a title, a type     *)
(* tag: no quote, slash, star, backslash or line break in it) is written   *)
(* as one element, and the blanks json.dump puts between tokens are left   *)
(* out, line breaks are kept.  No text drawn here holds a character that   *)
(* json.dump escapes.                                                      *)
(***************************************************************************)
QUOTE == "\""
NL == "\n"

\* JSON values: None, str, list and dict (a dict is a sequence of [k, v], the
\* key k a text)
JNull == [t |-> "null", s |-> << >>]
JStr(chars) == [t |-> "str", s |-> chars]
JList(items) == [t |-> "list", s |-> items]
JObj(members) == [t |-> "obj", s |-> members]
\* the text of a key
Key(name) == <<name>>

\* d.get(key, default) of a dict value
JGet(d, key, default) == IF DictHas(d.s, key) THEN DictGet(d.s, key) ELSE default
\* d[key] = v
JSet(d, key, v) == JObj(DictSet(d.s, key, v))

\* json.dump(value, f, indent=2, ensure_ascii=False)
RECURSIVE DumpValue(_)
RECURSIVE DumpItems(_, _)
RECURSIVE DumpMembers(_, _)
DumpValue(v) ==
    IF v.t = "null" THEN <<"null">>
    ELSE IF v.t = "str" THEN <<QUOTE>> \o v.s \o <<QUOTE>>
    ELSE IF v.t = "list"
         THEN IF Len(v.s) = 0 THEN <<"[", "]">>
              ELSE <<"[", NL>> \o DumpItems(v.s, 1) \o <<NL, "]">>
    ELSE IF Len(v.s) = 0 THEN <<"{", "}">>
         ELSE <<"{", NL>> \o DumpMembers(v.s, 1) \o <<NL, "}">>
DumpItems(items, i) ==
    DumpValue(items[i])
        \o (IF i = Len(items) THEN << >> ELSE <<",", NL>> \o DumpItems(items, i + 1))
DumpMembers(members, i) ==
    <<QUOTE>> \o members[i].k \o <<QUOTE, ":">> \o DumpValue(members[i].v)
        \o (IF i = Len(members) THEN << >> ELSE <<",", NL>> \o DumpMembers(members, i + 1))

\* the least index of a set of indices, none when the set is empty
FirstOf(S, none) == IF S = {} THEN none ELSE CHOOSE x \in S : \A y \in S : x <= y

\* first index j >= i with s[j] = a and s[j + 1] = b, 0 when there is none
FindPair(s, i, a, b) ==
    FirstOf({ j \in i..(Len(s) - 1) : s[j] = a /\ s[j + 1] = b }, 0)

\* first index j >= i with s[j] = c, Len(s) + 1 when there is none
IndexFrom(s, i, c) == FirstOf({ j \in i..Len(s) : s[j] = c }, Len(s) + 1)

\* re.sub(r'/\*.*?\*/', '', s, flags=re.S): leftmost matches, each from an
\* opening marker at j to the first closing marker after it; an opening marker
\* that no closing marker follows starts no match, nor does any after it
RECURSIVE StripBlockComments(_, _)
RECURSIVE StripBlockCommentAt(_, _, _)
StripBlockComments(s, i) == StripBlockCommentAt(s, i, FindPair(s, i, "/", "*"))
StripBlockCommentAt(s, i, j) ==
    IF j = 0 \/ FindPair(s, j + 2, "*", "/") = 0 THEN SubSeq(s, i, Len(s))
    ELSE SubSeq(s, i, j - 1) \o StripBlockComments(s, FindPair(s, j + 2, "*", "/") + 2)

\* re.sub(r'//.*$', '', s, flags=re.M): from the marker at j to the end of
\* its line
RECURSIVE StripLineComments(_, _)
RECURSIVE StripLineCommentAt(_, _, _)
StripLineComments(s, i) == StripLineCommentAt(s, i, FindPair(s, i, "/", "/"))
StripLineCommentAt(s, i, j) ==
    IF j = 0 THEN SubSeq(s, i, Len(s))
    ELSE SubSeq(s, i, j - 1) \o StripLineComments(s, IndexFrom(s, j, NL))

\* _strip_json_comments
StripJsonComments(s) == StripLineComments(StripBlockComments(s, 1), 1)

\* the scanner of json.loads: punctuation, null and strings; a line break
\* between tokens is white space, inside a string it is an error.  LexemeAt
\* is the lexeme that starts at position i, as a sequence of at most one
\* lexeme; quotes is the number of quotes before i, odd inside a string and at
\* its closing quote
LexemeAt(s, i, quotes) ==
    IF quotes % 2 = 1 \/ s[i] = NL THEN << >>
    ELSE IF s[i] \in {"{", "}", "[", "]", ":", ","}
         THEN <<[kind |-> "p", val |-> <<s[i]>>]>>
    ELSE IF s[i] = "null" THEN <<[kind |-> "null", val |-> << >>]>>
    ELSE IF s[i] = QUOTE /\ IndexFrom(s, i + 1, QUOTE) < IndexFrom(s, i + 1, NL)
         THEN <<[kind |-> "s", val |-> SubSeq(s, i + 1, IndexFrom(s, i + 1, QUOTE) - 1)]>>
    ELSE <<[kind |-> "error", val |-> << >>]>>
\* the lexemes that start in s[lo..hi], quotes the number of quotes before lo
RECURSIVE ScanRange(_, _, _, _)
ScanRange(s, lo, hi, quotes) ==
    IF lo > hi THEN << >>
    ELSE IF lo = hi THEN LexemeAt(s, lo, quotes)
    ELSE ScanRange(s, lo, (lo + hi) \div 2, quotes)
             \o ScanRange(s, (lo + hi) \div 2 + 1, hi,
                          quotes + Cardinality({ j \in lo..((lo + hi) \div 2) : s[j] = QUOTE }))

\* the parser of json.loads: [ok, v, next]; r is the value just parsed
ParseFail == [ok |-> FALSE, v |-> JNull, next |-> 0]
IsPunct(lex, i, p) == i <= Len(lex) /\ lex[i] = [kind |-> "p", val |-> <<p>>]
RECURSIVE ParseValue(_, _)
RECURSIVE ParseItems(_, _, _)
RECURSIVE ParseItem(_, _, _)
RECURSIVE ParseMembers(_, _, _)
RECURSIVE ParseMember(_, _, _, _)
ParseValue(lex, i) ==
    IF i > Len(lex) THEN ParseFail
    ELSE IF lex[i].kind = "s" THEN [ok |-> TRUE, v |-> JStr(lex[i].val), next |-> i + 1]
    ELSE IF lex[i].kind = "null" THEN [ok |-> TRUE, v |-> JNull, next |-> i + 1]
    ELSE IF IsPunct(lex, i, "[")
         THEN IF IsPunct(lex, i + 1, "]")
              THEN [ok |-> TRUE, v |-> JList(<< >>), next |-> i + 2]
              ELSE ParseItems(lex, i + 1, << >>)
    ELSE IF IsPunct(lex, i, "{")
         THEN IF IsPunct(lex, i + 1, "}")
              THEN [ok |-> TRUE, v |-> JObj(<< >>), next |-> i + 2]
              ELSE ParseMembers(lex, i + 1, << >>)
    ELSE ParseFail
ParseItems(lex, i, acc) == ParseItem(lex, acc, ParseValue(lex, i))
ParseItem(lex, acc, r) ==
    IF ~r.ok THEN ParseFail
    ELSE IF IsPunct(lex, r.next, ",") THEN ParseItems(lex, r.next + 1, Append(acc, r.v))
    ELSE IF IsPunct(lex, r.next, "]")
         THEN [ok |-> TRUE, v |-> JList(Append(acc, r.v)), next |-> r.next + 1]
    ELSE ParseFail
ParseMembers(lex, i, acc) ==
    IF ~(i <= Len(lex) /\ lex[i].kind = "s" /\ IsPunct(lex, i + 1, ":")) THEN ParseFail
    ELSE ParseMember(lex, acc, lex[i].val, ParseValue(lex, i + 2))
ParseMember(lex, acc, key, r) ==
    IF ~r.ok THEN ParseFail
    ELSE IF IsPunct(lex, r.next, ",")
         THEN ParseMembers(lex, r.next + 1, DictSet(acc, key, r.v))
    ELSE IF IsPunct(lex, r.next, "}")
         THEN [ok |-> TRUE, v |-> JObj(DictSet(acc, key, r.v)), next |-> r.next + 1]
    ELSE ParseFail

\* json.loads(text): [ok, v], ok false for a JSONDecodeError; lex is the
\* scanned text, r the value parsed from its n lexemes
LoadsParsed(r, n) ==
    IF r.ok /\ r.next = n + 1 THEN [ok |-> TRUE, v |-> r.v]
    ELSE [ok |-> FALSE, v |-> JNull]
LoadsLexemes(lex) == LoadsParsed(ParseValue(lex, 1), Len(lex))
JsonLoads(s) == LoadsLexemes(ScanRange(s, 1, Len(s), 0))

\* the files of the project directory: the session file and its temporary
NoFile == [exists |-> FALSE, text |-> << >>]
FileOf(text) == [exists |-> TRUE, text |-> text]
\* project_path / 'workspace.json', as <<stem, suffix>>
SessionPath == <<"workspace", ".json">>
\* a save that writes in place
WithSuffixTmp_SamePath(path) == path
\* self.path.with_suffix('.tmp')
WithSuffixTmp(path) == <<path[1], ".tmp">>
\* open(path, 'w') followed by the writes that have reached the file
WriteFile(fs, path, text) == [fs EXCEPT ![path] = FileOf(text)]
\* src.replace(dst)
ReplaceFile(fs, src, dst) ==
    IF src = dst THEN fs ELSE [fs EXCEPT ![dst] = fs[src], ![src] = NoFile]

\* WorkspaceState.__init__: self.state
NewWorkspaceState ==
    JObj(<< [k |-> Key("open_views"), v |-> JList(<< >>)],
            [k |-> Key("layout"), v |-> JObj(<< >>)],
            [k |-> Key("last_opened"), v |-> JNull] >>)

\* load assigning what json.loads returned before it knows of a failure
LoadResult_AssignFirst(state, r) == [ok |-> r.ok, state |-> r.v]

\* WorkspaceState.load: [ok, state]; r is what json.loads returned
LoadResult(state, r) ==
    IF r.ok THEN [ok |-> TRUE, state |-> r.v] ELSE [ok |-> FALSE, state |-> state]
WorkspaceLoad(state, fs) ==
    IF ~fs[SessionPath].exists THEN [ok |-> FALSE, state |-> state]
    ELSE LoadResult(state, JsonLoads(StripJsonComments(fs[SessionPath].text)))

\* WorkspaceState.save, the header: the '_comment' string c as a // line
SaveHeader(c) ==
    IF c.t = "str" /\ Len(c.s) > 0 THEN <<"/", "/">> \o c.s \o <<NL>> ELSE << >>
\* WorkspaceState.save, all that is written to the temporary file
SaveText(state) == SaveHeader(JGet(state, Key("_comment"), JNull)) \o DumpValue(state)
\* WorkspaceState.save from open to replace: [ok, files]
WorkspaceSave(state, fs) ==
    IF state.t # "obj" THEN [ok |-> FALSE, files |-> fs]
    ELSE [ok |-> TRUE,
          files |-> ReplaceFile(WriteFile(fs, WithSuffixTmp(SessionPath), SaveText(state)),
                                WithSuffixTmp(SessionPath), SessionPath)]

(***************************************************************************)
(* geoflow/ui/window.py: GeoflowMainWindow, its tabs and the autosave.     *)
(* A tab of self.tabs is a record of its widget, its tab text, and the     *)
(* text of an editor or the view_type of a view widget.                    *)
(***************************************************************************)
ContentLimit == 100000
\* the style sheets of the themes directory
InstalledThemes == {"dark", "light"}
\* ViewType
ViewTypes == {"3D", "Map", "Well Section"}

EndsWith(title, suffix) == Len(title) > 0 /\ title[Len(title)] = suffix
\* list.pop(index) and tabs.removeTab(index), index counted from 0
RemoveAt(seq, index) ==
    [j \in 1..(Len(seq) - 1) |-> IF j <= index THEN seq[j] ELSE seq[j + 1]]

\* GeoflowMainWindow.open_view
OpenViewWindow(w, title, content) ==
    LET hl == IF EndsWith(title, ".py") THEN <<[lang |-> "python", title |-> title]>>
              ELSE IF EndsWith(title, ".json") THEN <<[lang |-> "json", title |-> title]>>
              ELSE << >>
    IN  [w EXCEPT !.highlighters = w.highlighters \o hl,
                  !.tabs = Append(w.tabs, [widget |-> "editor", title |-> title,
                                           content |-> content, view_type |-> ""])]

\* add_view keeping the widget without showing it in a tab
AddViewWindow_NoTab(w, view_type) ==
    IF view_type \notin ViewTypes THEN w
    ELSE [w EXCEPT !.view_widgets = Append(w.view_widgets, view_type)]

\* GeoflowMainWindow.add_view; the tab text is the windowTitle() of the view
\* widget, f"{view_type.value} View"
AddViewWindow(w, view_type) ==
    IF view_type \notin ViewTypes THEN w
    ELSE [w EXCEPT !.view_widgets = Append(w.view_widgets, view_type),
                   !.tabs = Append(w.tabs, [widget |-> "view",
                                            title |-> <<view_type, " View">>,
                                            content |-> << >>, view_type |-> view_type]),
                   !.status = Status("Opened view", <<view_type>>)]

\* GeoflowMainWindow.autosave: the descriptor of one tab, the content of an
\* editor being w.toPlainText()[:100000]
ViewData(tab) ==
    IF tab.widget = "editor"
    THEN JObj(<< [k |-> Key("type"), v |-> JStr(<<"text">>)],
                 [k |-> Key("title"), v |-> JStr(tab.title)],
                 [k |-> Key("content"),
                  v |-> JStr(SubSeq(tab.content, 1,
                                    IF Len(tab.content) < ContentLimit
                                    THEN Len(tab.content) ELSE ContentLimit))] >>)
    ELSE JObj(<< [k |-> Key("type"), v |-> JStr(<<"view">>)],
                 [k |-> Key("title"), v |-> JStr(tab.title)],
                 [k |-> Key("view_type"), v |-> JStr(<<tab.view_type>>)],
                 [k |-> Key("content"), v |-> JNull] >>)

\* GeoflowMainWindow.autosave, up to the call of save: [state, exc];
\* AutosaveTheme is the part that persists the theme
AutosaveTheme(w, state) ==
    LET layout == JGet(state, Key("layout"), JObj(<< >>))
    IN  IF layout.t # "obj" THEN [state |-> state, exc |-> "TypeError"]
        ELSE [state |-> JSet(state, Key("layout"),
                             JSet(layout, Key("theme"), JStr(<<w.current_theme>>))),
              exc |-> ""]
AutosaveState(w, state) ==
    IF state.t # "obj" THEN [state |-> state, exc |-> "TypeError"]
    ELSE AutosaveTheme(w,
             JSet(JSet(state, Key("open_views"),
                       JList([i \in 1..Len(w.tabs) |-> ViewData(w.tabs[i])])),
                  Key("last_opened"), JNull))

\* GeoflowMainWindow.autosave after the state is built (a) and after save
\* has returned (sv): [window, state, files]
AutosaveSaved(w, state, sv) ==
    [window |-> [w EXCEPT !.status = IF sv.ok THEN Status("Workspace autosaved", << >>)
                                     ELSE Status("Autosave failed", << >>)],
     state |-> state, files |-> sv.files]
AutosaveBuilt(w, fs, a) ==
    IF a.exc # "" THEN [window |-> w, state |-> a.state, files |-> fs]
    ELSE AutosaveSaved(w, a.state, WorkspaceSave(a.state, fs))
\* GeoflowMainWindow.autosave as one call
Autosave(w, state, fs) ==
    IF w.closing THEN [window |-> w, state |-> state, files |-> fs]
    ELSE AutosaveBuilt(w, fs, AutosaveState(w, state))

\* GeoflowMainWindow.closeEvent
CloseEventWindow(w, state, fs) ==
    [Autosave([w EXCEPT !.closing = TRUE], state, fs) EXCEPT !.window.phase = "closed"]

\* GeoflowMainWindow.restore_ui_from_workspace, the loop over open_views and
\* the status message after it; an exception leaves __init__, and the window
\* is not built
RECURSIVE RestoreViews(_, _, _)
RestoreViews(w, views, i) ==
    IF i > Len(views) THEN [w EXCEPT !.status = Status("Restored session", << >>)]
    ELSE IF views[i].t # "obj" THEN [w EXCEPT !.phase = "failed"]
    ELSE LET v == views[i]
             type == JGet(v, Key("type"), JNull)
             view_type == JGet(v, Key("view_type"), JNull)
             title == JGet(v, Key("title"), JNull)
             content == JGet(v, Key("content"), JNull)
         IN  IF type.t = "str" /\ type.s = <<"view">>
             THEN IF view_type.t = "str" /\ Len(view_type.s) = 1
                  THEN RestoreViews(AddViewWindow(w, view_type.s[1]), views, i + 1)
                  ELSE RestoreViews(w, views, i + 1)
             ELSE IF \/ ~DictHas(v.s, Key("title")) \/ ~DictHas(v.s, Key("content"))
                     \/ title.t # "str" \/ content.t # "str"
                  THEN [w EXCEPT !.phase = "failed"]
             ELSE RestoreViews(OpenViewWindow(w, title.s, content.s), views, i + 1)

\* self.workspace.state.get('layout', {}).get('theme', 'dark')
ThemeOfState(state) ==
    LET layout == JGet(state, Key("layout"), JObj(<< >>))
        theme == IF layout.t = "obj" THEN JGet(layout, Key("theme"), JStr(<<"dark">>))
                 ELSE JStr(<<"dark">>)
    IN  IF theme.t = "str" /\ Len(theme.s) = 1 THEN theme.s[1] ELSE "dark"

\* GeoflowMainWindow.restore_ui_from_workspace on the window w that __init__
\* has built so far: [window, state]; ld is what load returned
RestoreUi(w, ld) ==
    LET views == IF ld.state.t = "obj" THEN JGet(ld.state, Key("open_views"), JList(<< >>))
                 ELSE JNull
    IN  [window |-> IF ~ld.ok
                    THEN OpenViewWindow(w, <<"Welcome">>, <<"Welcome to geoflow">>)
                    ELSE IF views.t # "list" THEN [w EXCEPT !.phase = "failed"]
                    ELSE RestoreViews(w, views.s, 1),
         state |-> ld.state]

\* create_application: WorkspaceState() and GeoflowMainWindow(workspace) on
\* the files of the project directory: [window, state]
NewMainWindow(fs) ==
    RestoreUi([phase |-> "open", closing |-> FALSE, tabs |-> << >>, highlighters |-> << >>,
               view_widgets |-> << >>, current_theme |-> ThemeOfState(NewWorkspaceState),
               status |-> Status("Ready", << >>)],
              WorkspaceLoad(NewWorkspaceState, fs))

(***************************************************************************)
(* The session: one main window at a time on the project directory, the    *)
(* steps of WorkspaceState.save, and a reader of the session file.         *)
(***************************************************************************)
\* inputs of the model: the text files of the project directory that can be
\* opened in a tab
ProjectFiles ==
    { [title |-> <<"notes">>, content |-> <<"a">>],
      [title |-> <<"run", ".py">>, content |-> <<"a", "/", "/", "a">>],
      [title |-> <<"head">>, content |-> <<"/", "*", "a", "*", "/", "a">>] }

\* a session file written by hand, with a // line, a block comment and a
\* '_comment' entry
AuthoredSession ==
    <<"/", "/", "a", NL, "{", NL, QUOTE, "_comment", QUOTE, ":", QUOTE, "a", QUOTE, ",", NL,
      QUOTE, "open_views", QUOTE, ":", "[", NL,
      "{", QUOTE, "title", QUOTE, ":", QUOTE, "notes", QUOTE, ",",
      QUOTE, "content", QUOTE, ":", QUOTE, "a", QUOTE, "}", NL,
      "]", ",", "/", "*", "a", "*", "/", NL,
      QUOTE, "layout", QUOTE, ":", "{", QUOTE, "theme", QUOTE, ":", QUOTE, "light", QUOTE,
      "}", ",", NL,
      QUOTE, "last_opened", QUOTE, ":", "null", NL, "}">>

NotAutosaved == [done |-> FALSE, state |-> NewWorkspaceState]

\* the project directory with the session file f, and the application
\* started on it
SessionStart(f) ==
    /\ files = [p \in {SessionPath, WithSuffixTmp(SessionPath)} |->
                  IF p = SessionPath THEN f ELSE NoFile]
    /\ \E app \in {NewMainWindow(files)} :
         window = app.window /\ workspace_state = app.state
    /\ save_pc = "idle"
    /\ committed = f
    /\ reader_saw = [file |-> NoFile, at |-> "never"]
    /\ autosaved = NotAutosaved
    /\ n_session_ops = 0

\* one more step of the session
SessionTick ==
    /\ n_session_ops < MaxSessionOps
    /\ n_session_ops' = n_session_ops + 1
    /\ UNCHANGED <<call_vars, section_vars>>

\* the window is up and no handler is running
Running == window.phase = "open" /\ save_pc = "idle"

\* GeoflowMainWindow.open_file_from_tree
OpenFile(file) ==
    /\ SessionTick
    /\ Running
    /\ Len(window.tabs) < MaxTabs
    /\ window' = [OpenViewWindow(window, file.title, file.content)
                     EXCEPT !.status = Status("Opened", file.title)]
    /\ UNCHANGED <<files, workspace_state, save_pc, committed, reader_saw, autosaved>>

\* GeoflowMainWindow.add_view, from the view toolbar
AddView(view_type) ==
    /\ SessionTick
    /\ Running
    /\ Len(window.tabs) < MaxTabs
    /\ window' = AddViewWindow(window, view_type)
    /\ UNCHANGED <<files, workspace_state, save_pc, committed, reader_saw, autosaved>>

\* GeoflowMainWindow.close_tab, from tabCloseRequested
CloseTab(index) ==
    /\ SessionTick
    /\ Running
    /\ index < Len(window.tabs)
    /\ window' =
         [window EXCEPT
            !.highlighters = IF index < Len(window.highlighters)
                             THEN RemoveAt(window.highlighters, index)
                             ELSE window.highlighters,
            !.view_widgets = IF index < Len(window.view_widgets)
                             THEN RemoveAt(window.view_widgets, index)
                             ELSE window.view_widgets,
            !.tabs = RemoveAt(window.tabs, index)]
    /\ UNCHANGED <<files, workspace_state, save_pc, committed, reader_saw, autosaved>>

\* GeoflowMainWindow.set_theme, from the theme menu, and the apply_theme it
\* calls (the colours of the highlighters are not part of the model)
SetTheme(name) ==
    /\ SessionTick
    /\ Running
    /\ window' = IF name \in InstalledThemes THEN [window EXCEPT !.current_theme = name]
                 ELSE window
    /\ UNCHANGED <<files, workspace_state, save_pc, committed, reader_saw, autosaved>>

\* the autosave timer fires: GeoflowMainWindow.autosave up to and with
\* open(tmp, 'w') of WorkspaceState.save; a is the state autosave has built,
\* and when open raises save returns False
AutosaveBegin ==
    /\ SessionTick
    /\ Running
    /\ ~window.closing
    /\ \E a \in {AutosaveState(window, workspace_state)}, can_open \in BOOLEAN :
         /\ workspace_state' = a.state
         /\ IF a.exc # "" THEN UNCHANGED <<files, save_pc, window>>
            ELSE IF can_open
            THEN /\ files' = WriteFile(files, WithSuffixTmp(SessionPath), << >>)
                 /\ save_pc' = "opened"
                 /\ UNCHANGED window
            ELSE /\ window' = [window EXCEPT !.status = Status("Autosave failed", << >>)]
                 /\ UNCHANGED <<files, save_pc>>
    /\ UNCHANGED <<committed, reader_saw, autosaved>>

\* WorkspaceState.save: the header and the document reach the temporary
\* file, in two parts
SaveWrite ==
    /\ SessionTick
    /\ save_pc \in {"opened", "partial"}
    /\ \E text \in {SaveText(workspace_state)} :
         files' = WriteFile(files, WithSuffixTmp(SessionPath),
                            IF save_pc = "opened" THEN SubSeq(text, 1, Len(text) \div 2)
                            ELSE text)
    /\ save_pc' = IF save_pc = "opened" THEN "partial" ELSE "written"
    /\ UNCHANGED <<window, workspace_state, committed, reader_saw, autosaved>>

\* WorkspaceState.save: tmp.replace(self.path), and the end of autosave
SaveReplace ==
    /\ SessionTick
    /\ save_pc = "written"
    /\ files' = ReplaceFile(files, WithSuffixTmp(SessionPath), SessionPath)
    /\ window' = [window EXCEPT !.status = Status("Workspace autosaved", << >>)]
    /\ save_pc' = "idle"
    /\ autosaved' = [done |-> TRUE, state |-> workspace_state]
    /\ committed' = FileOf(SaveText(workspace_state))
    /\ UNCHANGED <<workspace_state, reader_saw>>

\* GeoflowMainWindow.closeEvent: the window is closed by the user; r is what
\* the handler left
CloseWindow ==
    /\ SessionTick
    /\ Running
    /\ \E r \in {CloseEventWindow(window, workspace_state, files)} :
         /\ window' = r.window
         /\ workspace_state' = r.state
         /\ files' = r.files
         /\ autosaved' = IF r.files = files THEN autosaved
                         ELSE [done |-> TRUE, state |-> r.state]
         /\ committed' = IF r.files = files THEN committed ELSE r.files[SessionPath]
    /\ UNCHANGED <<save_pc, reader_saw>>

\* create_application: the application is started again on the directory,
\* after the window was closed or its construction failed
StartWindow ==
    /\ SessionTick
    /\ window.phase # "open"
    /\ \E app \in {NewMainWindow(files)} :
         window' = app.window /\ workspace_state' = app.state
    /\ autosaved' = NotAutosaved
    /\ UNCHANGED <<files, save_pc, committed, reader_saw>>

\* another process reads the session file
ReadSessionFile ==
    /\ SessionTick
    /\ reader_saw' = [file |-> files[SessionPath], at |-> save_pc]
    /\ UNCHANGED <<files, window, workspace_state, save_pc, committed, autosaved>>

\* the themes set_theme is called with: one installed, one not
SessionNext ==
    \/ \E file \in ProjectFiles : OpenFile(file)
    \/ \E view_type \in ViewTypes : AddView(view_type)
    \/ \E index \in 0..(MaxTabs - 1) : CloseTab(index)
    \/ \E name \in {"light", "solar"} : SetTheme(name)
    \/ AutosaveBegin
    \/ SaveWrite
    \/ SaveReplace
    \/ CloseWindow
    \/ StartWindow
    \/ ReadSessionFile

(***************************************************************************)
(* Calls of the WellLogData methods on their own: the object and the       *)
(* arguments are drawn by Init, a call records what it returned.           *)
(***************************************************************************)
NoCall == [fn |-> "none", some |-> FALSE, name |-> "None", arr |-> << >>]

\* sequences without repetition over a set of mnemonics: the insertion orders
\* of the curves of a well
RECURSIVE Arrangements(_)
Arrangements(S) ==
    {<< >>} \cup UNION { { <<x>> \o t : t \in Arrangements(S \ {x}) } : x \in S }

\* sample values of a GR curve and of a RHOB curve
GrSamples == {I(-10), I(30), I(31), I(90), I(150), I(151), NaN}
RhobSamples == {I(0), I(1), Q(3, 2), I(2), Q(265, 100), I(3), NaN}

WellOf(curves) ==
    [name |-> "W", data_rows |-> IF curves = << >> THEN 0 ELSE Len(curves[1].v),
     curves |-> curves,
     units |-> [i \in 1..Len(curves) |-> [k |-> curves[i].k, v |-> ""]],
     descriptions |-> [i \in 1..Len(curves) |-> [k |-> curves[i].k, v |-> ""]]]

\* (gr_clean, gr_shale) for shale volume, (fluid_density, matrix_density) for
\* porosity; the first pair of each set is the default
GrCalibrations ==
    { <<DefaultGrClean, DefaultGrShale>>, <<I(0), I(100)>>, <<I(150), I(30)>>,
      <<I(30), I(30)>> }
DensityCalibrations ==
    { <<DefaultFluidDensity, DefaultMatrixDensity>>, <<I(1), I(3)>>, <<I(3), I(1)>> }

\* the wells drawn: every subset of five mnemonics in every insertion order,
\* and wells with a GR or a RHOB curve of two or three samples
CallInit ==
    /\ arg_well \in
         { WellOf([i \in 1..Len(a) |-> [k |-> a[i], v |-> <<I(i), I(i + 1)>>]]) :
             a \in Arrangements({"DEPT", "DEPTH", "MD", "TVD", "GR"}) }
         \cup { WellOf(<< [k |-> "GR", v |-> <<g1, g2>>] >>) :
                   g1 \in GrSamples, g2 \in GrSamples }
         \cup { WellOf(<< [k |-> "GR", v |-> gr] >>) :
                   gr \in { <<I(30), I(90), I(150)>>, <<I(150), I(30), I(90)>> } }
         \cup { WellOf(<< [k |-> "RHOB", v |-> <<r1, r2>>] >>) :
                   r1 \in RhobSamples, r2 \in RhobSamples }
    /\ arg_cal \in GrCalibrations \cup DensityCalibrations
    /\ result = NoCall
    /\ SectionInit
    /\ SessionStart(NoFile)

CallFindDepthCurve ==
    /\ result = NoCall
    /\ result' = [fn |-> "_find_depth_curve", some |-> FALSE,
                  name |-> FindDepthCurve(arg_well.curves), arr |-> << >>]
    /\ UNCHANGED <<arg_well, arg_cal, section_vars, session_vars>>

\* a call of calculate_shale_volume that clips into the GR array of the well
CallShaleVolume_InPlace ==
    /\ result = NoCall
    /\ arg_cal \in GrCalibrations
    /\ LET r == CalculateShaleVolume(arg_well, "GR", arg_cal[1], arg_cal[2])
       IN  /\ result' = [fn |-> "calculate_shale_volume", some |-> r.some,
                          name |-> "None", arr |-> r.arr]
           /\ arg_well' = IF r.some
                          THEN [arg_well EXCEPT !.curves = DictSet(@, "GR", r.arr)]
                          ELSE arg_well
    /\ UNCHANGED <<arg_cal, section_vars, session_vars>>

\* a call of calculate_shale_volume(gr_clean = arg_cal[1], gr_shale =
\* arg_cal[2]) on arg_well, which is the object before and after the call
CallShaleVolume ==
    /\ result = NoCall
    /\ arg_cal \in GrCalibrations
    /\ LET r == CalculateShaleVolume(arg_well, "GR", arg_cal[1], arg_cal[2])
       IN  result' = [fn |-> "calculate_shale_volume", some |-> r.some,
                      name |-> "None", arr |-> r.arr]
    /\ UNCHANGED <<arg_well, arg_cal, section_vars, session_vars>>

CallPorosity ==
    /\ result = NoCall
    /\ arg_cal \in DensityCalibrations
    /\ LET r == CalculatePorosity(arg_well, "RHOB", arg_cal[1], arg_cal[2])
       IN  result' = [fn |-> "calculate_porosity", some |-> r.some,
                      name |-> "None", arr |-> r.arr]
    /\ UNCHANGED <<arg_well, arg_cal, section_vars, session_vars>>

CallNext == CallFindDepthCurve \/ CallShaleVolume \/ CallPorosity

(***************************************************************************)
(* Specifications.                                                         *)
(***************************************************************************)
vars == <<call_vars, section_vars, session_vars>>

\* the section view and its well collection
Init ==
    /\ arg_well = NewWellLogData /\ arg_cal = <<I(0), I(0)>> /\ result = NoCall
    /\ SectionInit
    /\ SessionStart(NoFile)
Next == SectionNext
Spec == Init /\ [][Next]_vars

\* the methods of WellLogData called on their own
CallSpec == CallInit /\ [][CallNext]_vars

\* the session of the main window
SessionInit ==
    /\ arg_well = NewWellLogData /\ arg_cal = <<I(0), I(0)>> /\ result = NoCall
    /\ SectionInit
    /\ \E f \in {NoFile, FileOf(AuthoredSession)} : SessionStart(f)
SessionSpec == SessionInit /\ [][SessionNext]_vars

(***************************************************************************)
(* Properties.                                                             *)
(***************************************************************************)

\* C1: a zoom to a range typed with min >= max (or with a NaN bound) is
\* rejected: update_depth_range leaves the canvas, and so its depth range, as
\* it was and reports "Invalid depth range".
C1_ZoomRejectsInvertedRange ==
    [][\A texts \in DepthTexts :
         LET pmin == ParseFloat(texts[1])
             pmax == ParseFloat(texts[2])
         IN  (/\ UpdateDepthRange(texts[1], texts[2])
              /\ pmin.ok /\ pmax.ok
              /\ ~RLt(pmin.val, pmax.val))
             => (/\ canvas'.depth_range = canvas.depth_range
                 /\ canvas' = canvas
                 /\ status_label' = Status("Invalid depth range", ""))]_vars

\* C1 witness: zoom(500, 100) was rejected on a view bound to a well and
\* showing its full extent 100..300.
C1_Witness ==
    /\ status_label = Status("Invalid depth range", "")
    /\ min_depth_edit = <<"5", "0", "0">>
    /\ max_depth_edit = <<"1", "0", "0">>
    /\ canvas.well_data # 0
    /\ canvas.depth_range = <<I(100), I(300)>>

\* C2 (as claimed): in every reachable state of the section view the depth
\* range satisfies min < max.
C2_DepthRangeMinLtMax == RLt(canvas.depth_range[1], canvas.depth_range[2])

\* C3: when the main window has been closed, the session file holds the
\* session as of the close: the document that a save of the tabs and the
\* theme the window had at the close writes.
C3_SessionSavedOnClose ==
    window.phase = "closed" =>
        files[SessionPath]
            = FileOf(SaveText(AutosaveState(window, workspace_state).state))

\* C4: whatever the point WorkspaceState.save has reached, a read of the
\* session file returns a complete content: the one the file had before the
\* save until the replace, the one the save writes from the replace on.
C4_SessionWriteIsAtomic ==
    [][ReadSessionFile => reader_saw'.file = committed]_vars

\* C4 witness: a read made while the temporary file is half written has
\* returned the earlier session file.
C4_Witness ==
    /\ reader_saw.at = "partial"
    /\ reader_saw.file = FileOf(AuthoredSession)
    /\ reader_saw.file # FileOf(SaveText(workspace_state))

\* C5: once an autosave has saved a session state, a load of the session
\* file succeeds and gives the same open_views and the same layout.theme,
\* whatever the texts of the tabs and with a '_comment' header in the file.
C5_SessionRoundTrip ==
    autosaved.done =>
        \E ld \in {WorkspaceLoad(NewWorkspaceState, files)} :
            /\ ld.ok
            /\ ld.state.t = "obj"
            /\ DumpValue(JGet(ld.state, Key("open_views"), JNull))
                 = DumpValue(JGet(autosaved.state, Key("open_views"), JNull))
            /\ ThemeOfState(ld.state) = ThemeOfState(autosaved.state)

\* C6: a main window built on the workspace after an autosave finds the
\* session file and has a tab for every title that was open at the autosave.
C6_AutosaveThenRestore ==
    [][(StartWindow /\ autosaved.done) =>
          /\ files[SessionPath].exists
          /\ LET views == JGet(autosaved.state, Key("open_views"), JList(<< >>)).s
             IN  \A i \in 1..Len(views) : \E j \in 1..Len(window'.tabs) :
                     window'.tabs[j].title = JGet(views[i], Key("title"), JNull).s]_vars

\* C7: a load whose parse fails returns no well name and leaves the well
\* collection, every well object and the combo box as they were.
C7_LoadFailureIsClean ==
    [][\A file \in LasFiles :
         (LoadWell(file) /\ ~LoadFromLas(NewWellLogData, file).ok)
         => (/\ ManagerLoadWell(heap, wells, file).name = "None"
             /\ wells' = wells
             /\ heap' = heap
             /\ combo_items' = combo_items
             /\ status_label' = Status("Failed to load well", ""))]_vars

\* C7 witness: a load failed while the collection held a well.
C7_Witness ==
    /\ status_label = Status("Failed to load well", "")
    /\ Len(wells) = 1
    /\ Len(heap) = 1

\* the object id of the most recent successful load of a well named name
LastLoaded(name) ==
    CHOOSE id \in 1..Len(heap) :
        /\ heap[id].name = name
        /\ \A other \in 1..Len(heap) : heap[other].name = name => other <= id

\* C8: the collection holds exactly one well per loaded name, and it is the
\* object the most recent load with that name produced.
C8_WellNamesUniqueByOverwrite ==
    /\ \A i, j \in 1..Len(wells) : wells[i].k = wells[j].k => i = j
    /\ {wells[i].k : i \in 1..Len(wells)} = {heap[id].name : id \in 1..Len(heap)}
    /\ \A i \in 1..Len(wells) : wells[i].v = LastLoaded(wells[i].k)

\* C8 witness: two files with the same well name were loaded, the second one
\* replacing the first.
C8_Witness ==
    /\ Len(heap) = 2
    /\ heap[1].name = heap[2].name
    /\ heap[1] # heap[2]
    /\ wells = << [k |-> heap[2].name, v |-> 2] >>

\* the names of the curves of the well a method is called on
ArgCurveSet == {arg_well.curves[i].k : i \in 1..Len(arg_well.curves)}

\* C9: _find_depth_curve returns the first of DEPT, DEPTH, MD, TVD that is
\* among the curve names, None exactly when none is, whatever the insertion
\* order of the curves.
C9_DepthCurvePriority ==
    result.fn = "_find_depth_curve" =>
        result.name = (IF "DEPT" \in ArgCurveSet THEN "DEPT"
                       ELSE IF "DEPTH" \in ArgCurveSet THEN "DEPTH"
                       ELSE IF "MD" \in ArgCurveSet THEN "MD"
                       ELSE IF "TVD" \in ArgCurveSet THEN "TVD"
                       ELSE "None")

\* C9 witness: all four candidates present, inserted in reverse priority
\* order, and DEPT found.
C9_Witness ==
    /\ result.fn = "_find_depth_curve"
    /\ DictKeys(arg_well.curves) = <<"TVD", "MD", "DEPTH", "DEPT">>
    /\ result.name = "DEPT"

\* the GR samples of the well a method is called on
ArgGr == DictGet(arg_well.curves, "GR")

\* C10 (as claimed): with the default calibration every shale volume sample
\* lies in [0, 1] and the samples are non-decreasing in GR.
C10_ShaleVolumeRangeAllValues ==
    (/\ result.fn = "calculate_shale_volume"
     /\ result.some
     /\ arg_cal = <<DefaultGrClean, DefaultGrShale>>)
    => /\ \A i \in 1..Len(result.arr) :
            RLe(I(0), result.arr[i]) /\ RLe(result.arr[i], I(1))
       /\ \A i, j \in 1..Len(result.arr) :
            RLe(ArgGr[i], ArgGr[j]) => RLe(result.arr[i], result.arr[j])

\* C10 (amended): with gr_clean < gr_shale every sample that is not NaN gives
\* a shale volume in [0, 1], non-decreasing in GR; a NaN sample gives NaN.
C10_ShaleVolumeRange ==
    (/\ result.fn = "calculate_shale_volume"
     /\ result.some
     /\ RLt(arg_cal[1], arg_cal[2]))
    => /\ Len(result.arr) = Len(ArgGr)
       /\ \A i \in 1..Len(result.arr) :
            IF IsNaN(ArgGr[i]) THEN IsNaN(result.arr[i])
            ELSE RLe(I(0), result.arr[i]) /\ RLe(result.arr[i], I(1))
       /\ \A i, j \in 1..Len(result.arr) :
            RLe(ArgGr[i], ArgGr[j]) => RLe(result.arr[i], result.arr[j])

\* C10 witness: GR 31 and 151 with the default calibration give 1/120 and a
\* clipped 1.
C10_Witness ==
    /\ result.fn = "calculate_shale_volume"
    /\ arg_cal = <<DefaultGrClean, DefaultGrShale>>
    /\ DictHas(arg_well.curves, "GR")
    /\ ArgGr = <<I(31), I(151)>>
    /\ result.arr = <<Q(1, 120), I(1)>>

\* the RHOB samples of the well a method is called on
ArgRhob == DictGet(arg_well.curves, "RHOB")

\* C11 (as claimed): with the default densities every porosity sample lies in
\* [0, 1] and the samples are non-increasing in RHOB.
C11_PorosityRangeAllValues ==
    (/\ result.fn = "calculate_porosity"
     /\ result.some
     /\ arg_cal = <<DefaultFluidDensity, DefaultMatrixDensity>>)
    => /\ \A i \in 1..Len(result.arr) :
            RLe(I(0), result.arr[i]) /\ RLe(result.arr[i], I(1))
       /\ \A i, j \in 1..Len(result.arr) :
            RLe(ArgRhob[i], ArgRhob[j]) => RLe(result.arr[j], result.arr[i])

\* C11 (amended): with fluid_density < matrix_density every sample that is
\* not NaN gives a porosity in [0, 1], non-increasing in RHOB; a NaN sample
\* gives NaN.
C11_PorosityRange ==
    (/\ result.fn = "calculate_porosity"
     /\ result.some
     /\ RLt(arg_cal[1], arg_cal[2]))
    => /\ Len(result.arr) = Len(ArgRhob)
       /\ \A i \in 1..Len(result.arr) :
            IF IsNaN(ArgRhob[i]) THEN IsNaN(result.arr[i])
            ELSE RLe(I(0), result.arr[i]) /\ RLe(result.arr[i], I(1))
       /\ \A i, j \in 1..Len(result.arr) :
            RLe(ArgRhob[i], ArgRhob[j]) => RLe(result.arr[j], result.arr[i])

\* C11 witness: RHOB 2 and 3 with the default densities give 13/33 and a
\* clipped 0.
C11_Witness ==
    /\ result.fn = "calculate_porosity"
    /\ arg_cal = <<DefaultFluidDensity, DefaultMatrixDensity>>
    /\ DictHas(arg_well.curves, "RHOB")
    /\ ArgRhob = <<I(2), I(3)>>
    /\ result.arr = <<Q(13, 33), I(0)>>

\* C12: the i-th shale volume sample is
\* clip((GR[i] - gr_clean) / (gr_shale - gr_clean), 0, 1), the result is as
\* long as GR, and GR [30, 90, 150] with the points 30 and 150 gives
\* [0.0, 0.5, 1.0].
C12_ShaleVolumeElementWise ==
    (result.fn = "calculate_shale_volume" /\ result.some)
    => /\ Len(result.arr) = Len(ArgGr)
       /\ \A i \in 1..Len(ArgGr) :
            result.arr[i] =
                LET vsh == RDiv(RSub(ArgGr[i], arg_cal[1]), RSub(arg_cal[2], arg_cal[1]))
                IN  IF IsNaN(vsh) THEN NaN
                    ELSE IF RLt(vsh, I(0)) THEN I(0)
                    ELSE IF RLt(I(1), vsh) THEN I(1)
                    ELSE vsh
       /\ (ArgGr = <<I(30), I(90), I(150)>> /\ arg_cal = <<I(30), I(150)>>)
            => result.arr = <<I(0), Q(1, 2), I(1)>>

\* C12 witness: the example of three samples, out of sorted order, with the
\* points 30 and 150.
C12_Witness ==
    /\ result.fn = "calculate_shale_volume"
    /\ arg_cal = <<I(30), I(150)>>
    /\ DictHas(arg_well.curves, "GR")
    /\ ArgGr = <<I(150), I(30), I(90)>>
    /\ result.arr = <<I(1), I(0), Q(1, 2)>>

\* C13: on every loaded well, calculate_shale_volume returns None exactly when
\* the well has no GR curve and calculate_porosity exactly when it has no
\* RHOB curve; a Calculate Vsh or Calculate Porosity request on a selected
\* well without the curve sets the status message and changes nothing else:
\* no well, no canvas field, no depth edit.
C13_MissingCurveFailure ==
    /\ [](\A id \in 1..Len(heap) :
            /\ CalculateShaleVolume(heap[id], "GR", DefaultGrClean, DefaultGrShale).some
                  = DictHas(heap[id].curves, "GR")
            /\ CalculatePorosity(heap[id], "RHOB", DefaultFluidDensity,
                                 DefaultMatrixDensity).some
                  = DictHas(heap[id].curves, "RHOB"))
    /\ [][/\ (WidgetCalculateShaleVolume /\ current_well # 0
               /\ ~DictHas(heap[current_well].curves, "GR"))
              => /\ status_label' =
                      Status("GR curve not found for shale volume calculation", "")
                 /\ UNCHANGED <<heap, wells, current_well, canvas, combo_items,
                                combo_text, min_depth_edit, max_depth_edit, calc_enabled>>
          /\ (WidgetCalculatePorosity /\ current_well # 0
               /\ ~DictHas(heap[current_well].curves, "RHOB"))
              => /\ status_label' =
                      Status("RHOB curve not found for porosity calculation", "")
                 /\ UNCHANGED <<heap, wells, current_well, canvas, combo_items,
                                combo_text, min_depth_edit, max_depth_edit, calc_enabled>>
       ]_vars

\* C13 witness: porosity was requested on the selected well W2, which has a GR
\* curve only, and the well still has that one curve.
C13_Witness ==
    /\ current_well # 0
    /\ status_label = Status("RHOB curve not found for porosity calculation", "")
    /\ DictKeys(heap[current_well].curves) = <<"GR">>

\* C14: a call of calculate_shale_volume or calculate_porosity, returning an
\* array or None, leaves the name, the curves with all their samples, the
\* units and the descriptions of the well as they were.
C14_DerivationHasNoSideEffect ==
    [][(CallShaleVolume \/ CallPorosity)
         => /\ arg_well'.name = arg_well.name
            /\ arg_well'.curves = arg_well.curves
            /\ arg_well'.units = arg_well.units
            /\ arg_well'.descriptions = arg_well.descriptions]_vars

\* C14 witness: a shale volume call whose result differs from the GR samples,
\* which the well still holds.
C14_Witness ==
    /\ result.fn = "calculate_shale_volume"
    /\ result.some
    /\ ArgGr = <<I(-10), I(151)>>
    /\ result.arr = <<I(0), I(1)>>

\* the curve names of the well bound to the canvas
BoundCurveNames ==
    IF canvas.well_data = 0 THEN {}
    ELSE {heap[canvas.well_data].curves[i].k :
            i \in 1..Len(heap[canvas.well_data].curves)}

\* C15 (as claimed): the index _get_track_for_curve returns for a curve of the
\* bound well is an index into the current track list.
C15_TrackIndexAlwaysValid ==
    \A curve_name \in BoundCurveNames :
        TrackForCurve(curve_name) \in 0..(Len(canvas.tracks) - 1)

\* C15 (amended): the lookup follows the table, with track 1 for any other
\* name, so the index is one of 0..4, which is an index into a list of five
\* tracks; every curve drawn on a track is one the lookup sends there, so a
\* curve whose index is past the end of the track list is drawn on no track.
C15_TrackAssignment ==
    /\ \A curve_name \in BoundCurveNames \cup
                          {"DEPT", "DEPTH", "MD", "TVD", "GR", "GR_EDTC", "CGR", "RT",
                           "ILD", "LLD", "MSFL", "LLS", "RHOB", "RHOZ", "DRHO", "NPHI",
                           "NPOR", "TNPH", "VSH", "PHI", "", "dept", "SP"} :
         /\ TrackForCurve(curve_name) \in 0..4
         /\ curve_name \in {"DEPT", "DEPTH", "MD", "TVD"} <=> TrackForCurve(curve_name) = 0
         /\ curve_name \in {"RT", "ILD", "LLD", "MSFL", "LLS"} <=> TrackForCurve(curve_name) = 2
         /\ curve_name \in {"RHOB", "RHOZ", "DRHO"} <=> TrackForCurve(curve_name) = 3
         /\ curve_name \in {"NPHI", "NPOR", "TNPH"} <=> TrackForCurve(curve_name) = 4
    /\ \A k \in 1..Len(canvas.tracks) :
         \A j \in 1..Len(canvas.tracks[k].axis.lines) :
            TrackForCurve(canvas.tracks[k].axis.lines[j]) = k - 1

\* C15 witness: a template of two tracks is loaded and the bound well has a
\* RHOB curve, whose track index 3 is past the end: GR is drawn on the second
\* track, RHOB on none.
C15_Witness ==
    /\ Len(canvas.tracks) = 2
    /\ "RHOB" \in BoundCurveNames
    /\ canvas.tracks[1].axis.lines = <<"DEPT">>
    /\ canvas.tracks[2].axis.lines = <<"GR">>

\* C16: a template file that save_template writes reads back as the track
\* list of the canvas at that moment, and load_template of the file makes the
\* track list the one that the file reads back as: as many tracks, in the
\* same order, each with the same name, width, color and curves.
C16_TemplateRoundTrip ==
    [][/\ template_file' # template_file
          => LET entries == TemplateLoad(template_file').tracks
             IN  /\ Len(entries) = Len(canvas.tracks)
                 /\ \A i \in 1..Len(entries) :
                      /\ entries[i].complete
                      /\ entries[i].name = canvas.tracks[i].name
                      /\ entries[i].width = canvas.tracks[i].width
                      /\ entries[i].color = canvas.tracks[i].color
                      /\ entries[i].curves = canvas.tracks[i].curves
       /\ (/\ template_file # NoTemplate
           /\ \E template_data \in {TemplateLoad(template_file)} : LoadTemplate(template_data))
          => LET entries == TemplateLoad(template_file).tracks
             IN  /\ Len(canvas'.tracks) = Len(entries)
                 /\ \A i \in 1..Len(entries) :
                      /\ canvas'.tracks[i].name = entries[i].name
                      /\ canvas'.tracks[i].width = entries[i].width
                      /\ canvas'.tracks[i].color = entries[i].color
                      /\ canvas'.tracks[i].curves = entries[i].curves
      ]_vars

\* C16 witness: the Neutron track was narrowed to 0.5 by a drag, the track
\* list saved as a template and loaded back.
C16_Witness ==
    /\ Len(template_file.tracks) = 5
    /\ template_file.tracks[5].width = <<"0", ".", "5">>
    /\ status_label = Status("Template loaded", "my")
    /\ Len(canvas.tracks) = 5
    /\ canvas.tracks[5].width = Q(1, 2)

\* C17: a motion event of a drag on a track of the list sets the width of
\* that track to max(0.1, width + 0.01 * (xdata - drag_start_x)) and leaves
\* the number of tracks and the name, color and curves of every track, and
\* the width of every other track, as they were.
C17_ResizeTouchesOneWidth ==
    [][\A xdata \in {I(0), I(150)} :
         (OnMotion(xdata) /\ canvas.drag_track_idx < Len(canvas.tracks))
         => /\ Len(canvas'.tracks) = Len(canvas.tracks)
            /\ \A k \in 1..Len(canvas.tracks) :
                 /\ canvas'.tracks[k].name = canvas.tracks[k].name
                 /\ canvas'.tracks[k].color = canvas.tracks[k].color
                 /\ canvas'.tracks[k].curves = canvas.tracks[k].curves
                 /\ canvas'.tracks[k].width =
                      IF k # canvas.drag_track_idx + 1 THEN canvas.tracks[k].width
                      ELSE LET w == RAdd(canvas.tracks[k].width,
                                         RMul(RSub(xdata, canvas.drag_start_x), Q(1, 100)))
                           IN  IF RLt(Q(1, 10), w) THEN w ELSE Q(1, 10)
      ]_vars

\* C17 witness: two motion events of a drag on the Neutron track, the second
\* of which stops at the floor, the other four widths being the default ones.
C17_Witness ==
    /\ canvas.dragging
    /\ canvas.drag_track_idx = 4
    /\ [k \in 1..Len(canvas.tracks) |-> canvas.tracks[k].width]
         = <<Q(1, 2), I(1), I(1), I(1), Q(1, 10)>>

\* C18: in every state every track of the canvas has a width of 0.1 or more.
C18_TrackWidthFloor ==
    \A k \in 1..Len(canvas.tracks) : RLe(Q(1, 10), canvas.tracks[k].width)

\* C19: a step that makes another well the current one binds the canvas to
\* it with the full extent of its vertical axis as the depth range: minimum
\* and maximum of its depth curve, or of the row numbers 0..N-1 when it has
\* none of the candidate curves.
C19_BindRecomputesExtent ==
    [][(current_well' # current_well /\ current_well' # 0)
         => /\ canvas'.well_data = current_well'
            /\ canvas'.depth_range =
                 LET well == heap'[current_well']
                 IN  IF FindDepthCurve(well.curves) # "None"
                     THEN DepthExtent(well, FindDepthCurve(well.curves))
                     ELSE <<I(0), I(well.data_rows - 1)>>
      ]_vars

\* C20: whenever the widget has no current well (the placeholder or a name
\* that is not in the collection was selected), the canvas has no well bound
\* either.
C20_UnboundWhenNoWellSelected ==
    current_well = 0 => canvas.well_data = 0

\* C21: Fit to Data on a canvas bound to a well with a depth curve makes the
\* depth range the minimum and maximum of that curve, whatever the range was
\* before, and leaves the bound well, the wells and the number, order, names,
\* widths, colors and curves of the tracks as they were.
C21_FitRecomputesExtent ==
    [][(FitToData /\ canvas.well_data # 0 /\ canvas.depth_curve # "None")
         => /\ canvas'.depth_range =
                 <<NpMin(DictGet(heap[canvas.well_data].curves, canvas.depth_curve)),
                   NpMax(DictGet(heap[canvas.well_data].curves, canvas.depth_curve))>>
            /\ canvas'.well_data = canvas.well_data
            /\ canvas'.depth_curve = canvas.depth_curve
            /\ heap' = heap
            /\ Len(canvas'.tracks) = Len(canvas.tracks)
            /\ \A k \in 1..Len(canvas.tracks) :
                 /\ canvas'.tracks[k].name = canvas.tracks[k].name
                 /\ canvas'.tracks[k].width = canvas.tracks[k].width
                 /\ canvas'.tracks[k].color = canvas.tracks[k].color
                 /\ canvas'.tracks[k].curves = canvas.tracks[k].curves
      ]_vars

\* C21 witness: Fit to Data as the third handler, on the canvas bound to W1
\* (DEPT 100..300): the range and the two depth edits show the extent.
C21_Witness ==
    /\ n_ops = 3
    /\ status_label = Status("Fitted to data", "")
    /\ canvas.well_data # 0
    /\ canvas.depth_curve = "DEPT"
    /\ canvas.depth_range = <<I(100), I(300)>>
    /\ max_depth_edit = <<"3", "0", "0">>

\* C22: whenever a well is bound to the canvas, every track has an axis whose
\* depth limits are the current depth range (drawn downwards) and the curves
\* drawn on the tracks are exactly the curves of the bound well.
C22_RenderMatchesState ==
    canvas.well_data # 0 =>
        /\ \A k \in 1..Len(canvas.tracks) :
             /\ canvas.tracks[k].axis.made
             /\ canvas.tracks[k].axis.ylim = <<canvas.depth_range[2], canvas.depth_range[1]>>
        /\ UNION { {canvas.tracks[k].axis.lines[j] :
                      j \in 1..Len(canvas.tracks[k].axis.lines)} :
                   k \in 1..Len(canvas.tracks) } = BoundCurveNames

\* C23: a Calculate Vsh request on a current well with a GR curve leaves the
\* well with a VSH curve, a Calculate Porosity request on one with a RHOB
\* curve with a PHI curve, every curve the well had before keeping its place
\* and its samples; and a well that has a VSH or a PHI curve has it in every
\* later state.
C23_DerivedCurvesStay ==
    [][/\ \A id \in 1..Len(heap) :
            /\ Len(heap') >= Len(heap)
            /\ heap'[id].name = heap[id].name
            /\ DictHas(heap[id].curves, "VSH") => DictHas(heap'[id].curves, "VSH")
            /\ DictHas(heap[id].curves, "PHI") => DictHas(heap'[id].curves, "PHI")
       /\ (WidgetCalculateShaleVolume /\ current_well # 0
            /\ DictHas(heap[current_well].curves, "GR"))
           => /\ DictHas(heap'[current_well].curves, "VSH")
              /\ \A i \in 1..Len(heap[current_well].curves) :
                   heap[current_well].curves[i].k # "VSH"
                       => heap'[current_well].curves[i] = heap[current_well].curves[i]
       /\ (WidgetCalculatePorosity /\ current_well # 0
            /\ DictHas(heap[current_well].curves, "RHOB"))
           => /\ DictHas(heap'[current_well].curves, "PHI")
              /\ \A i \in 1..Len(heap[current_well].curves) :
                   heap[current_well].curves[i].k # "PHI"
                       => heap'[current_well].curves[i] = heap[current_well].curves[i]
      ]_vars

\* C23 witness: shale volume was calculated on W1, W2 was loaded and
\* selected, and W1 selected again: it has its three curves and VSH.
C23_Witness ==
    /\ n_ops = 4
    /\ Len(heap) = 2
    /\ current_well = 1
    /\ status_label = Status("Selected well", "W1")
    /\ DictKeys(heap[1].curves) = <<"DEPT", "GR", "RHOB", "VSH">>
    /\ DictGet(heap[1].curves, "VSH") = <<I(0), Q(1, 2), I(1)>>

\* C24: when the application is started on a directory whose session file is
\* missing or does not load (json.loads raises on it), load returns False,
\* the session state is the default one with no open_views, and the main
\* window is built with the Welcome tab as its only tab.
C24_FailedReadFallsBack ==
    [][(/\ StartWindow
        /\ \E ld \in {WorkspaceLoad(NewWorkspaceState, files)} : ~ld.ok)
         => /\ window'.phase = "open"
            /\ workspace_state' = NewWorkspaceState
            /\ JGet(workspace_state', Key("open_views"), JNull) = JList(<< >>)
            /\ Len(window'.tabs) = 1
            /\ window'.tabs[1].widget = "editor"
            /\ window'.tabs[1].title = <<"Welcome">>
            /\ window'.tabs[1].content = <<"Welcome to geoflow">>
      ]_vars

\* C24 witness: the application was started again on a session file that an
\* autosave wrote and that does not load, and shows the Welcome tab.
C24_Witness ==
    /\ n_session_ops = MaxSessionOps
    /\ window.phase = "open"
    /\ files[SessionPath].exists
    /\ ~JsonLoads(StripJsonComments(files[SessionPath].text)).ok
    /\ workspace_state = NewWorkspaceState
    /\ Len(window.tabs) = 1
    /\ window.tabs[1].title = <<"Welcome">>

\* C25: a main window built on a directory with no session file has exactly
\* one tab, Welcome; add_view of a known view type appends exactly one tab
\* (the tabs before it stay as they were), and close_tab of the index of a
\* tab removes exactly that tab. The tab count after a sequence of these is
\* therefore 1 + (number of add_view) - (number of close_tab).
C25_TabCounting ==
    /\ []((n_session_ops = 0 /\ ~files[SessionPath].exists)
            => (Len(window.tabs) = 1 /\ window.tabs[1].title = <<"Welcome">>))
    /\ [][/\ (StartWindow /\ ~files[SessionPath].exists)
              => (Len(window'.tabs) = 1 /\ window'.tabs[1].title = <<"Welcome">>)
          /\ \A view_type \in ViewTypes :
                AddView(view_type)
                  => /\ Len(window'.tabs) = Len(window.tabs) + 1
                     /\ SubSeq(window'.tabs, 1, Len(window.tabs)) = window.tabs
                     /\ window'.tabs[Len(window'.tabs)].view_type = view_type
          /\ \A index \in 0..(MaxTabs - 1) :
                CloseTab(index)
                  => /\ Len(window'.tabs) = Len(window.tabs) - 1
                     /\ \A j \in 1..Len(window'.tabs) :
                           window'.tabs[j] = window.tabs[IF j <= index THEN j ELSE j + 1]
         ]_vars

\* C25 witness: on a directory with no session file a view was added to the
\* Welcome tab and the Welcome tab was closed: 1 + 1 - 1 tabs.
C25_Witness ==
    /\ ~files[SessionPath].exists
    /\ window.phase = "open"
    /\ n_session_ops = 2
    /\ Len(window.tabs) = 1
    /\ window.tabs[1].widget = "view"

\* C26: a motion event of a resize drag on a canvas bound to a well leaves
\* the depth range (the zoom) and the bound well as they were.
C26_ResizeKeepsZoom ==
    [][\A xdata \in {I(0), I(150)} :
         (OnMotion(xdata) /\ canvas.well_data # 0)
         => /\ canvas'.depth_range = canvas.depth_range
            /\ canvas'.well_data = canvas.well_data
      ]_vars

\* C27: in every state of an open main window view_widgets holds exactly the
\* view widgets that are shown in a tab, in the order of their tabs.
C27_ViewWidgetsMatchTabs ==
    window.phase = "open" =>
        LET IsViewTab(tab) == tab.widget = "view"
            shown == SelectSeq(window.tabs, IsViewTab)
        IN  window.view_widgets = [j \in 1..Len(shown) |-> shown[j].view_type]

\* C28: a Load Template whose file is not valid JSON, or has a track entry
\* without one of name, width, color and curves, leaves the track list of
\* the canvas as it was, every track with the axis it had.
C28_FailedTemplateLoadKeepsTracks ==
    [][\A template_data \in TemplateFiles :
         (/\ LoadTemplate(template_data)
          /\ \/ ~template_data.valid_json
             \/ \E k \in 1..Len(template_data.tracks) : ~template_data.tracks[k].complete)
         => /\ canvas'.tracks = canvas.tracks
            /\ \A k \in 1..Len(canvas'.tracks) : canvas'.tracks[k].axis.made
      ]_vars

\* C29: when the application is started on a session file that an autosave
\* of the previous window wrote, and the file records an installed theme
\* as layout.theme, the new window has that theme as its current theme (the
\* theme its next autosave writes).
C29_ThemeSurvivesRestart ==
    [][(/\ StartWindow
        /\ autosaved.done
        /\ files[SessionPath] = committed
        /\ window'.phase = "open"
        /\ \E ld \in {WorkspaceLoad(NewWorkspaceState, files)} :
              ld.ok /\ ThemeOfState(ld.state) \in InstalledThemes)
         => /\ window'.current_theme = ThemeOfState(workspace_state')
            /\ \E a \in {AutosaveState(window', workspace_state')} :
                  ThemeOfState(a.state) = ThemeOfState(workspace_state')
      ]_vars

\* C30: during a resize drag the width of the dragged track depends on the
\* pointer position only, not on the motion events delivered on the way: a
\* motion event at x2 gives the same width whether or not a motion event at
\* x1 was delivered before it (on_motion applied to the state a motion
\* event left, against on_motion applied to the state before that event).
C30_ResizePathIndependent ==
    [][\A x1 \in {I(0), I(150)} :
         (OnMotion(x1) /\ canvas.drag_track_idx < Len(canvas.tracks))
         => \A x2 \in {I(0), I(150)} :
              LET i == canvas.drag_track_idx + 1
              IN  PyMax(Q(1, 10), RAdd(canvas'.tracks[i].width,
                                       RMul(RSub(x2, canvas'.drag_start_x), Q(1, 100))))
                  = PyMax(Q(1, 10), RAdd(canvas.tracks[i].width,
                                         RMul(RSub(x2, canvas.drag_start_x), Q(1, 100))))
      ]_vars

====
